---- MODULE Spec2Model ----
(***************************************************************************)
(* PERSEPTOR analysis pipeline: the retry wrapper (modules/ai/             *)
(* retry_handler.py), the two pipeline drivers (modules/pipeline/          *)
(* orchestrator.py, api/app.py), the AI task functions, the response       *)
(* cache, the providers and their factory, the output validator, the      *)
(* MITRE mapper and the Sigma matcher with its index cache.                *)
(***************************************************************************)
EXTENDS Integers, Sequences, FiniteSets, TLC

VARIABLES rt, mode, fx, st, sy, en, ca, pv, ov, mm, ec, pf, ix, sm

retryVars == <<rt>>
pipeVars == <<mode, fx, st, sy>>
moreVars == <<ec, pf, ix, sm>>
libVars == <<en, ca, pv, ov, mm, moreVars>>
vars == <<rt, mode, fx, st, sy, en, ca, pv, ov, mm, ec, pf, ix, sm>>

(***************************************************************************)
(* Bounds                                                                  *)
(***************************************************************************)
MaxRetries == 2
JitterDen == 2
\* Longest list of TTPs in the analysis data.
MaxTtps == 2

Min(a, b) == IF a <= b THEN a ELSE b

RECURSIVE Pow2(_)
Pow2(n) == IF n = 0 THEN 1 ELSE 2 * Pow2(n - 1)

(***************************************************************************)
(* Text values.  A string is a sequence of tokens, each standing for a     *)
(* literal piece of text; Width gives the number of characters.            *)
(***************************************************************************)
Width(tok) ==
    CASE tok = "TITLE" -> 6      \* "title:"
      [] tok = "SKIP" -> 17      \* "This rule detects"
      [] tok = "BODY" -> 14      \* fourteen ordinary characters
      [] tok = "NL" -> 1         \* a newline character
      [] tok = "BSN" -> 2        \* a backslash followed by the letter n
      [] tok = "SP" -> 1         \* a space
      [] tok = "ERR" -> 35       \* "Error generating extra Sigma rules."
      [] tok = "DASH" -> 3       \* "---"
      [] tok = "YAML" -> 30      \* one structural Sigma rule document
      [] OTHER -> 1

IsSpace(tok) == tok \in {"NL", "SP"}

RECURSIVE StrLen(_)
StrLen(s) == IF s = <<>> THEN 0 ELSE Width(Head(s)) + StrLen(Tail(s))

RECURSIVE LStrip(_)
LStrip(s) == IF s # <<>> /\ IsSpace(Head(s)) THEN LStrip(Tail(s)) ELSE s

RECURSIVE RStrip(_)
RStrip(s) ==
    IF s # <<>> /\ IsSpace(s[Len(s)]) THEN RStrip(SubSeq(s, 1, Len(s) - 1)) ELSE s

Strip(s) == RStrip(LStrip(s))

RECURSIVE SplitFrom(_, _, _, _, _)
SplitFrom(s, sep, i, cur, acc) ==
    IF i > Len(s) THEN Append(acc, cur)
    ELSE IF s[i] = sep THEN SplitFrom(s, sep, i + 1, <<>>, Append(acc, cur))
    ELSE SplitFrom(s, sep, i + 1, Append(cur, s[i]), acc)

\* str.split(sep): the pieces between occurrences of sep.
Split(s, sep) == SplitFrom(s, sep, 1, <<>>, <<>>)

RECURSIVE Join(_, _)
\* sep.join(parts)
Join(parts, sep) ==
    IF parts = <<>> THEN <<>>
    ELSE IF Len(parts) = 1 THEN parts[1]
    ELSE parts[1] \o sep \o Join(Tail(parts), sep)

StartsWithTitle(line) == LET t == Strip(line) IN t # <<>> /\ t[1] = "TITLE"
HasSkipPhrase(line) == \E i \in 1..Len(line) : line[i] = "SKIP"
StartsWithError(s) == s # <<>> /\ s[1] = "ERR"

RECURSIVE SigmaLines(_, _, _, _, _)
\* The loop over the lines of the AI Sigma text: a line starting with
\* "title:" opens a new rule, a line containing a commentary phrase is
\* dropped, any other line is appended to the current rule.
SigmaLines(lines, i, rules, cur, nl) ==
    IF i > Len(lines)
    THEN IF cur # <<>> THEN Append(rules, Join(cur, nl)) ELSE rules
    ELSE LET line == lines[i] IN
         IF StartsWithTitle(line)
         THEN SigmaLines(lines, i + 1,
                         IF cur # <<>> THEN Append(rules, Join(cur, nl)) ELSE rules,
                         <<line>>, nl)
         ELSE IF ~HasSkipPhrase(line) /\ (cur # <<>> \/ Strip(line) # <<>>)
         THEN SigmaLines(lines, i + 1, rules, Append(cur, line), nl)
         ELSE SigmaLines(lines, i + 1, rules, cur, nl)

\* Post-processing of the AI Sigma text; nl is the separator the code
\* splits and joins on.
CleanAiSigma(raw, nl) ==
    IF raw # <<>> /\ ~StartsWithError(raw)
    THEN Join(SigmaLines(Split(raw, nl[1]), 1, <<>>, <<>>, nl), nl \o nl)
    ELSE <<>>

StreamNL == <<"NL">>
SyncNL == <<"BSN">>

\* all_sigma_yaml: the structural YAML, then "\n---\n", then the AI rules.
SigmaUnion(ioc_yaml, more, nl) ==
    IF more # <<>>
    THEN IF ioc_yaml # <<>> THEN ioc_yaml \o nl \o <<"DASH">> \o nl \o more ELSE more
    ELSE ioc_yaml

\* Stage S5 runs only for a non-trivial union.
StreamRunsAtomic(all_yaml) == all_yaml # <<>> /\ StrLen(Strip(all_yaml)) > 20
SyncRunsAtomic(all_yaml) == ~(all_yaml = <<>> \/ StrLen(Strip(all_yaml)) < 20)

(***************************************************************************)
(* Stage tasks and their values                                            *)
(***************************************************************************)
Tasks == {"summary", "ioc", "ai_sigma", "yara", "mitre", "ioc_sigma",
          "match", "siem_struct", "siem_ai", "atomic"}
S1Tasks == {"summary", "ioc", "ai_sigma"}
S2Tasks == {"yara", "mitre", "ioc_sigma"}
S4Tasks == {"siem_struct", "siem_ai"}
SyncS4Tasks == {"siem_struct", "siem_ai", "atomic"}

Platforms == {"splunk", "qradar", "elastic", "sentinel"}

\* Raw texts returned by generate_more_sigma_rules_from_article.
AiSigmaTexts ==
    { <<>>,
      <<"ERR">>,
      <<"TITLE", "BODY">>,
      <<"TITLE", "BODY", "NL", "SKIP">>,
      <<"SKIP", "NL", "TITLE", "BODY", "NL", "BODY">>,
      <<"TITLE", "BODY", "NL", "BODY", "NL", "TITLE", "BODY">> }

\* Dicts returned by convert_sigma_to_siem_queries (all four platforms are
\* present after validation).
AiSiemDicts == {"all", "splunk_only", "blank"}

AiQuery(d, p) ==
    CASE d = "all" -> <<"AIQ">>
      [] d = "splunk_only" -> IF p = "splunk" THEN <<"AIQ">> ELSE <<"NA">>
      [] OTHER -> <<>>

Outcomes == {"ok", "raise", "slow", "hang"}

\* A run draws the outcome of a task; the first draw fixes whether the task
\* succeeds, so that a second run over the same fixture sees the same.
CanOutcome(t, o) ==
    CASE fx.k[t] = "unset" -> TRUE
      [] fx.k[t] = "ok" -> o = "ok"
      [] OTHER -> o # "ok"

FxAfter(t, o) == [fx EXCEPT !.k[t] = IF o = "ok" THEN "ok" ELSE "fail"]

TimedOut(o) == o \in {"slow", "hang"}
RunningAfter(l, t, o) == IF TimedOut(o) THEN l.running \cup {t} ELSE l.running
HungAfter(l, t, o) == IF o = "hang" THEN l.hung \cup {t} ELSE l.hung

\* Values computed from the IoC bundle by the deterministic generators.
YaraOf(ad) == IF ad = "IOCS" THEN "YARA_RULES" ELSE "NO_YARA"
MitreOf(ad) == IF ad = "IOCS" THEN "TECHNIQUES" ELSE "NO_TECHNIQUES"
SigmaRulesOf(ad) == IF ad = "IOCS" THEN "SIGMA_RULES" ELSE "PLACEHOLDER_RULE"
SigmaYamlOf(ad) == <<"YAML">>
StructSiemOf(ad) ==
    { [platform |-> p, query |-> IF ad = "IOCS" THEN <<"IOCQ">> ELSE <<"NA">>,
       notes |-> "generated"] : p \in Platforms }

\* The initial siem_queries of the streaming run: four blank entries.
BlankSiem == { [platform |-> p, query |-> <<>>, notes |-> ""] : p \in Platforms }

\* The merge of the AI-refined queries into siem_queries.
MergeAiSiem(siem, d, nl, notes) ==
    { IF AiQuery(d, e.platform) # <<>> /\ AiQuery(d, e.platform) # <<"NA">>
      THEN [platform |-> e.platform,
            query |-> e.query \o nl \o nl \o <<"MARK">> \o nl \o AiQuery(d, e.platform),
            notes |-> IF notes = "" THEN e.notes ELSE notes]
      ELSE e : e \in siem }

AnalysisView(ad) == IF ad = "IOCS" THEN "IOCS" ELSE "EMPTY"

\* The aggregated record.
BuildResponse(l) ==
    [threat_summary |-> l.threat_summary,
     analysis_data |-> AnalysisView(l.analysis_data),
     mitre_mapping |-> l.mitre,
     yara_rules |-> l.yara_rules,
     ioc_sigma_rules |-> l.ioc_sigma_rules,
     generated_sigma_rules |-> l.all_sigma_yaml,
     siem_queries |-> l.siem_queries,
     atomic_tests |-> l.atomic_tests,
     sigma_matches |-> l.sigma_matches]

Modes == {"app", "sync", "pair"}

Locals(pc0, summary0, siem0) ==
    [pc |-> pc0, threat_summary |-> summary0, analysis_data |-> "EMPTY",
     more_sigma_rules |-> <<>>, yara_rules |-> "NO_YARA", mitre |-> "NO_TECHNIQUES",
     ioc_sigma_rules |-> "NO_RULES", ioc_sigma_yaml |-> <<>>, sigma_matches |-> "NO_MATCHES",
     siem_queries |-> siem0, all_sigma_yaml |-> <<>>, atomic_tests |-> "NO_TESTS",
     events |-> <<>>, running |-> {}, hung |-> {}, calls |-> {}, response |-> {}]

StreamIdle == Locals("idle", "Could not generate threat summary", {})
SyncIdle == Locals("idle", "unset", {})

FxUnset == [k |-> [t \in Tasks |-> "unset"], sigma |-> <<>>, siem |-> "blank"]

\* The retry wrapper at rest, and the value of "no exception".
NoError == [kind |-> "none", retryable |-> FALSE, retry_after |-> 0, msg |-> ""]

RtIdle == rt = [pc |-> "idle", max_retries |-> 0, base_delay |-> 1, max_delay |-> 1,
                attempt |-> 0, calls |-> 0, thrown |-> <<>>, sleeps |-> <<>>,
                last_exception |-> NoError, raised |-> NoError, result |-> "none"]

PipeIdle == mode = "none" /\ fx = FxUnset /\ st = StreamIdle /\ sy = SyncIdle

\* The task functions, the cache, the providers, the validator and the
\* mapper at rest.
EnIdle == en = "idle"
CaIdle == ca = "idle"
PvIdle == pv = "idle"
OvIdle == ov = "idle"
MmIdle == mm = "idle"
MoreIdle == ec = "idle" /\ pf = "idle" /\ ix = "idle" /\ sm = "idle"
LibIdle == EnIdle /\ CaIdle /\ PvIdle /\ OvIdle /\ MmIdle /\ MoreIdle

(***************************************************************************)
(* Streaming run: run_analysis_pipeline_stream (orchestrator.py) and the   *)
(* generator of analyze_url_stream (api/app.py), which runs the same       *)
(* stages after fetching the page.                                         *)
(***************************************************************************)
Ev(stage, progress) == [stage |-> stage, progress |-> progress]

EvError == Ev("error", 0)

\* A variant order in which `siem` is announced before the match result.
EvsSiemBeforeMatchDone == <<Ev("siem", 82), Ev("sigma_match_done", 80)>>

\* The two events between stage S3 and stage S4.
EvsAfterMatch == <<Ev("sigma_match_done", 80), Ev("siem", 82)>>

\* A variant anchor below the 93 of `siem_ai_done`.
EvAtomicTestsEarly == Ev("atomic_tests", 90)

\* The start event of stage S5.
EvAtomicTests == Ev("atomic_tests", 93)

Emit(l, evs) == l.events \o evs

PipeInit ==
    /\ mode \in Modes
    /\ fx = FxUnset
    /\ st = IF mode = "pair" THEN [StreamIdle EXCEPT !.pc = "start"]
            ELSE IF mode = "app" THEN [StreamIdle EXCEPT !.pc = "fetch"]
            ELSE StreamIdle
    /\ sy = IF mode = "sync" THEN [SyncIdle EXCEPT !.pc = "s1_summary"] ELSE SyncIdle
    /\ RtIdle
    /\ LibIdle

\* app.py: fetch the page; a fetch error ends the stream with an error event.
AppFetch ==
    /\ st.pc = "fetch"
    /\ \/ st' = [st EXCEPT !.pc = "ocr",
                           !.events = Emit(st, <<Ev("fetching", 5), Ev("fetched", 10), Ev("ocr", 12)>>)]
       \/ st' = [st EXCEPT !.pc = "done",
                           !.events = Emit(st, <<Ev("fetching", 5), EvError>>)]
    /\ UNCHANGED <<mode, fx, sy, rt, libVars>>

\* app.py: OCR, then the check for at least 50 characters of text.
AppOcr ==
    /\ st.pc = "ocr"
    /\ \/ st' = [st EXCEPT !.pc = "start", !.events = Emit(st, <<Ev("ocr_done", 20)>>)]
       \/ st' = [st EXCEPT !.pc = "done", !.events = Emit(st, <<EvError>>)]
    /\ UNCHANGED <<mode, fx, sy, rt, libVars>>

\* Submit the three S1 tasks and announce them.
StreamStart ==
    /\ st.pc = "start"
    /\ st' = [st EXCEPT !.pc = "s1_summary",
                        !.events = Emit(st, <<Ev("ai_parallel", 22), Ev("threat_summary", 25),
                                              Ev("ioc_extraction", 25), Ev("ai_sigma", 25)>>)]
    /\ UNCHANGED <<mode, fx, sy, rt, libVars>>

StreamCollectSummary ==
    /\ st.pc = "s1_summary"
    /\ \E o \in Outcomes :
        /\ CanOutcome("summary", o)
        /\ fx' = FxAfter("summary", o)
        /\ st' = [st EXCEPT !.pc = "s1_ioc",
                            !.threat_summary = IF o = "ok" THEN "SUMMARY" ELSE @,
                            !.running = RunningAfter(st, "summary", o),
                            !.hung = HungAfter(st, "summary", o),
                            !.events = Emit(st, <<Ev("threat_summary_done", 40)>>)]
    /\ UNCHANGED <<mode, sy, rt, libVars>>

StreamCollectIoc ==
    /\ st.pc = "s1_ioc"
    /\ \E o \in Outcomes :
        /\ CanOutcome("ioc", o)
        /\ fx' = FxAfter("ioc", o)
        /\ st' = [st EXCEPT !.pc = "s1_ai_sigma",
                            !.analysis_data = IF o = "ok" THEN "IOCS" ELSE @,
                            !.running = RunningAfter(st, "ioc", o),
                            !.hung = HungAfter(st, "ioc", o),
                            !.events = Emit(st, <<Ev("ioc_done", 50)>>)]
    /\ UNCHANGED <<mode, sy, rt, libVars>>

\* The AI Sigma future: no event is emitted for it.
StreamCollectAiSigma ==
    /\ st.pc = "s1_ai_sigma"
    /\ \E o \in Outcomes, txt \in AiSigmaTexts :
        /\ CanOutcome("ai_sigma", o)
        /\ IF fx.k["ai_sigma"] = "ok" THEN txt = fx.sigma
           ELSE IF o = "ok" THEN TRUE ELSE txt = <<>>
        /\ fx' = [FxAfter("ai_sigma", o) EXCEPT !.sigma = txt]
        /\ st' = [st EXCEPT !.pc = "s1_exit",
                            !.more_sigma_rules = IF o = "ok" THEN CleanAiSigma(txt, StreamNL) ELSE @,
                            !.running = RunningAfter(st, "ai_sigma", o),
                            !.hung = HungAfter(st, "ai_sigma", o)]
    /\ UNCHANGED <<mode, sy, rt, libVars>>

\* Leaving `with ThreadPoolExecutor(...)`: shutdown(wait=True) returns once
\* every task of the stage has returned.  Then stage S2 starts.
StreamS1Exit ==
    /\ st.pc = "s1_exit"
    /\ st.running \cap S1Tasks = {}
    /\ st' = [st EXCEPT !.pc = "s2_yara", !.events = Emit(st, <<Ev("rules", 55)>>)]
    /\ UNCHANGED <<mode, fx, sy, rt, libVars>>

StreamCollectYara ==
    /\ st.pc = "s2_yara"
    /\ \E o \in Outcomes :
        /\ CanOutcome("yara", o)
        /\ fx' = FxAfter("yara", o)
        /\ st' = [st EXCEPT !.pc = "s2_mitre",
                            !.yara_rules = IF o = "ok" THEN YaraOf(st.analysis_data) ELSE @,
                            !.running = RunningAfter(st, "yara", o),
                            !.hung = HungAfter(st, "yara", o),
                            !.events = Emit(st, <<Ev("yara_done", 62)>>)]
    /\ UNCHANGED <<mode, sy, rt, libVars>>

StreamCollectMitre ==
    /\ st.pc = "s2_mitre"
    /\ \E o \in Outcomes :
        /\ CanOutcome("mitre", o)
        /\ fx' = FxAfter("mitre", o)
        /\ st' = [st EXCEPT !.pc = "s2_ioc_sigma",
                            !.mitre = IF o = "ok" THEN MitreOf(st.analysis_data) ELSE @,
                            !.running = RunningAfter(st, "mitre", o),
                            !.hung = HungAfter(st, "mitre", o),
                            !.events = Emit(st, <<Ev("mitre_done", 68)>>)]
    /\ UNCHANGED <<mode, sy, rt, libVars>>

StreamCollectIocSigma ==
    /\ st.pc = "s2_ioc_sigma"
    /\ \E o \in Outcomes :
        /\ CanOutcome("ioc_sigma", o)
        /\ fx' = FxAfter("ioc_sigma", o)
        /\ st' = [st EXCEPT !.pc = "s2_exit",
                            !.ioc_sigma_rules = IF o = "ok" THEN SigmaRulesOf(st.analysis_data) ELSE @,
                            !.ioc_sigma_yaml = IF o = "ok" THEN SigmaYamlOf(st.analysis_data) ELSE @,
                            !.running = RunningAfter(st, "ioc_sigma", o),
                            !.hung = HungAfter(st, "ioc_sigma", o),
                            !.events = Emit(st, <<Ev("sigma_done", 75)>>)]
    /\ UNCHANGED <<mode, sy, rt, libVars>>

StreamS2Exit ==
    /\ st.pc = "s2_exit"
    /\ st.running \cap S2Tasks = {}
    /\ st' = [st EXCEPT !.pc = "s3_match", !.events = Emit(st, <<Ev("sigma_match", 76)>>)]
    /\ UNCHANGED <<mode, fx, sy, rt, libVars>>

\* Stage S3 runs inline; then stage S4 is announced and its tasks submitted.
StreamSigmaMatch ==
    /\ st.pc = "s3_match"
    /\ \E o \in {"ok", "raise"} :
        /\ CanOutcome("match", o)
        /\ fx' = FxAfter("match", o)
        /\ st' = [st EXCEPT !.pc = "s4_struct",
                            !.sigma_matches = IF o = "ok" THEN "MATCHES" ELSE @,
                            !.siem_queries = BlankSiem,
                            !.events = Emit(st, EvsAfterMatch)]
    /\ UNCHANGED <<mode, sy, rt, libVars>>

StreamCollectSiemStruct ==
    /\ st.pc = "s4_struct"
    /\ \E o \in Outcomes :
        /\ CanOutcome("siem_struct", o)
        /\ fx' = FxAfter("siem_struct", o)
        /\ st' = [st EXCEPT !.pc = "s4_ai",
                            !.siem_queries = IF o = "ok" THEN StructSiemOf(st.analysis_data) ELSE @,
                            !.running = RunningAfter(st, "siem_struct", o),
                            !.hung = HungAfter(st, "siem_struct", o),
                            !.events = IF o = "ok" THEN Emit(st, <<Ev("siem_structured_done", 88)>>) ELSE @]
    /\ UNCHANGED <<mode, sy, rt, libVars>>

\* _do_siem_ai returns None without calling the provider when there are no
\* AI Sigma rules.
StreamCollectSiemAiSkipped ==
    /\ st.pc = "s4_ai"
    /\ st.more_sigma_rules = <<>>
    /\ st' = [st EXCEPT !.pc = "s4_exit", !.events = Emit(st, <<Ev("siem_ai_done", 93)>>)]
    /\ UNCHANGED <<mode, fx, sy, rt, libVars>>

StreamCollectSiemAi ==
    /\ st.pc = "s4_ai"
    /\ st.more_sigma_rules # <<>>
    /\ \E o \in Outcomes, d \in AiSiemDicts :
        /\ CanOutcome("siem_ai", o)
        /\ IF fx.k["siem_ai"] = "ok" THEN d = fx.siem
           ELSE IF o = "ok" THEN TRUE ELSE d = "blank"
        /\ fx' = [FxAfter("siem_ai", o) EXCEPT !.siem = d]
        /\ st' = [st EXCEPT !.pc = "s4_exit",
                            !.calls = @ \cup {"convert_sigma_to_siem_queries"},
                            !.siem_queries = IF o = "ok"
                                             THEN MergeAiSiem(@, d, StreamNL, "Includes both IoC-based and AI-refined queries")
                                             ELSE @,
                            !.running = RunningAfter(st, "siem_ai", o),
                            !.hung = HungAfter(st, "siem_ai", o),
                            !.events = IF o = "ok" THEN Emit(st, <<Ev("siem_ai_done", 93)>>) ELSE @]
    /\ UNCHANGED <<mode, sy, rt, libVars>>

\* Leave stage S4, combine the Sigma YAML and decide whether S5 runs.
StreamS4Exit ==
    /\ st.pc = "s4_exit"
    /\ st.running \cap S4Tasks = {}
    /\ LET all == SigmaUnion(st.ioc_sigma_yaml, st.more_sigma_rules, StreamNL) IN
       st' = [st EXCEPT !.all_sigma_yaml = all,
                        !.pc = IF StreamRunsAtomic(all) THEN "s5_atomic" ELSE "finalize",
                        !.events = IF StreamRunsAtomic(all) THEN Emit(st, <<EvAtomicTests>>) ELSE @]
    /\ UNCHANGED <<mode, fx, sy, rt, libVars>>

\* Stage S5 is an inline call: it returns, raises, or never returns.
StreamAtomic ==
    /\ st.pc = "s5_atomic"
    /\ \E o \in {"ok", "raise", "hang"} :
        /\ CanOutcome("atomic", o)
        /\ fx' = FxAfter("atomic", o)
        /\ st' = IF o = "hang"
                 THEN [st EXCEPT !.pc = "s5_blocked", !.hung = @ \cup {"atomic"},
                                 !.calls = @ \cup {"generate_atomic_tests_from_sigma"}]
                 ELSE [st EXCEPT !.pc = "finalize",
                                 !.calls = @ \cup {"generate_atomic_tests_from_sigma"},
                                 !.atomic_tests = IF o = "ok" THEN "TESTS" ELSE @,
                                 !.events = Emit(st, <<Ev("atomic_tests_done", 97)>>)]
    /\ UNCHANGED <<mode, sy, rt, libVars>>

\* Build the record, save it and emit the terminal event.
StreamFinalize ==
    /\ st.pc = "finalize"
    /\ st' = [st EXCEPT !.pc = "done",
                        !.response = {BuildResponse(st)},
                        !.events = Emit(st, <<Ev("finalizing", 98), Ev("complete", 100)>>)]
    /\ UNCHANGED <<mode, fx, sy, rt, libVars>>

\* A task that outlived its timeout returns.
StreamTaskReturns ==
    /\ \E t \in st.running \ st.hung : st' = [st EXCEPT !.running = @ \ {t}]
    /\ UNCHANGED <<mode, fx, sy, rt, libVars>>

StreamStep ==
    \/ AppFetch \/ AppOcr \/ StreamStart
    \/ StreamCollectSummary \/ StreamCollectIoc \/ StreamCollectAiSigma \/ StreamS1Exit
    \/ StreamCollectYara \/ StreamCollectMitre \/ StreamCollectIocSigma \/ StreamS2Exit
    \/ StreamSigmaMatch \/ StreamCollectSiemStruct \/ StreamCollectSiemAiSkipped
    \/ StreamCollectSiemAi \/ StreamS4Exit \/ StreamAtomic \/ StreamFinalize

(***************************************************************************)
(* Synchronous run: run_analysis_pipeline_sync (orchestrator.py)           *)
(***************************************************************************)
\* The test harness of the paired run: once the streaming run has
\* completed, the synchronous run is started on the same fixture.
SyncStart ==
    /\ mode = "pair" /\ st.pc = "done" /\ sy.pc = "idle"
    /\ sy' = [sy EXCEPT !.pc = "s1_summary"]
    /\ UNCHANGED <<mode, fx, st, rt, libVars>>

SyncCollectSummary ==
    /\ sy.pc = "s1_summary"
    /\ \E o \in Outcomes :
        /\ CanOutcome("summary", o)
        /\ fx' = FxAfter("summary", o)
        /\ sy' = [sy EXCEPT !.pc = "s1_ioc",
                            !.threat_summary = IF o = "ok" THEN "SUMMARY"
                                               ELSE "Error generating threat summary",
                            !.running = RunningAfter(sy, "summary", o),
                            !.hung = HungAfter(sy, "summary", o)]
    /\ UNCHANGED <<mode, st, rt, libVars>>

SyncCollectIoc ==
    /\ sy.pc = "s1_ioc"
    /\ \E o \in Outcomes :
        /\ CanOutcome("ioc", o)
        /\ fx' = FxAfter("ioc", o)
        /\ sy' = [sy EXCEPT !.pc = "s1_ai_sigma",
                            !.analysis_data = IF o = "ok" THEN "IOCS" ELSE "ERRDICT",
                            !.running = RunningAfter(sy, "ioc", o),
                            !.hung = HungAfter(sy, "ioc", o)]
    /\ UNCHANGED <<mode, st, rt, libVars>>

SyncCollectAiSigma ==
    /\ sy.pc = "s1_ai_sigma"
    /\ \E o \in Outcomes, txt \in AiSigmaTexts :
        /\ CanOutcome("ai_sigma", o)
        /\ IF fx.k["ai_sigma"] = "ok" THEN txt = fx.sigma
           ELSE IF o = "ok" THEN TRUE ELSE txt = <<>>
        /\ fx' = [FxAfter("ai_sigma", o) EXCEPT !.sigma = txt]
        /\ sy' = [sy EXCEPT !.pc = "s1_exit",
                            !.more_sigma_rules = IF o = "ok" THEN CleanAiSigma(txt, SyncNL) ELSE <<>>,
                            !.running = RunningAfter(sy, "ai_sigma", o),
                            !.hung = HungAfter(sy, "ai_sigma", o)]
    /\ UNCHANGED <<mode, st, rt, libVars>>

SyncS1Exit ==
    /\ sy.pc = "s1_exit"
    /\ sy.running \cap S1Tasks = {}
    /\ sy' = [sy EXCEPT !.pc = "s2_yara"]
    /\ UNCHANGED <<mode, fx, st, rt, libVars>>

SyncCollectYara ==
    /\ sy.pc = "s2_yara"
    /\ \E o \in Outcomes :
        /\ CanOutcome("yara", o)
        /\ fx' = FxAfter("yara", o)
        /\ sy' = [sy EXCEPT !.pc = "s2_mitre",
                            !.yara_rules = IF o = "ok" THEN YaraOf(sy.analysis_data) ELSE "NO_YARA",
                            !.running = RunningAfter(sy, "yara", o),
                            !.hung = HungAfter(sy, "yara", o)]
    /\ UNCHANGED <<mode, st, rt, libVars>>

SyncCollectMitre ==
    /\ sy.pc = "s2_mitre"
    /\ \E o \in Outcomes :
        /\ CanOutcome("mitre", o)
        /\ fx' = FxAfter("mitre", o)
        /\ sy' = [sy EXCEPT !.pc = "s2_ioc_sigma",
                            !.mitre = IF o = "ok" THEN MitreOf(sy.analysis_data) ELSE "NO_TECHNIQUES",
                            !.running = RunningAfter(sy, "mitre", o),
                            !.hung = HungAfter(sy, "mitre", o)]
    /\ UNCHANGED <<mode, st, rt, libVars>>

SyncCollectIocSigma ==
    /\ sy.pc = "s2_ioc_sigma"
    /\ \E o \in Outcomes :
        /\ CanOutcome("ioc_sigma", o)
        /\ fx' = FxAfter("ioc_sigma", o)
        /\ sy' = [sy EXCEPT !.pc = "s2_exit",
                            !.ioc_sigma_rules = IF o = "ok" THEN SigmaRulesOf(sy.analysis_data) ELSE "NO_RULES",
                            !.ioc_sigma_yaml = IF o = "ok" THEN SigmaYamlOf(sy.analysis_data) ELSE <<>>,
                            !.running = RunningAfter(sy, "ioc_sigma", o),
                            !.hung = HungAfter(sy, "ioc_sigma", o)]
    /\ UNCHANGED <<mode, st, rt, libVars>>

\* Leave stage S2, combine the Sigma YAML and submit the S4/S5 tasks.
SyncS2Exit ==
    /\ sy.pc = "s2_exit"
    /\ sy.running \cap S2Tasks = {}
    /\ sy' = [sy EXCEPT !.pc = "s4_struct",
                        !.all_sigma_yaml = SigmaUnion(sy.ioc_sigma_yaml, sy.more_sigma_rules, SyncNL)]
    /\ UNCHANGED <<mode, fx, st, rt, libVars>>

SyncCollectSiemStruct ==
    /\ sy.pc = "s4_struct"
    /\ \E o \in Outcomes :
        /\ CanOutcome("siem_struct", o)
        /\ fx' = FxAfter("siem_struct", o)
        /\ sy' = [sy EXCEPT !.pc = "s4_ai",
                            !.siem_queries = IF o = "ok" THEN StructSiemOf(sy.analysis_data) ELSE {},
                            !.running = RunningAfter(sy, "siem_struct", o),
                            !.hung = HungAfter(sy, "siem_struct", o)]
    /\ UNCHANGED <<mode, st, rt, libVars>>

SyncCollectSiemAiSkipped ==
    /\ sy.pc = "s4_ai"
    /\ sy.more_sigma_rules = <<>>
    /\ sy' = [sy EXCEPT !.pc = "s5_atomic"]
    /\ UNCHANGED <<mode, fx, st, rt, libVars>>

SyncCollectSiemAi ==
    /\ sy.pc = "s4_ai"
    /\ sy.more_sigma_rules # <<>>
    /\ \E o \in Outcomes, d \in AiSiemDicts :
        /\ CanOutcome("siem_ai", o)
        /\ IF fx.k["siem_ai"] = "ok" THEN d = fx.siem
           ELSE IF o = "ok" THEN TRUE ELSE d = "blank"
        /\ fx' = [FxAfter("siem_ai", o) EXCEPT !.siem = d]
        /\ sy' = [sy EXCEPT !.pc = "s5_atomic",
                            !.calls = @ \cup {"convert_sigma_to_siem_queries"},
                            !.siem_queries = IF o = "ok" THEN MergeAiSiem(@, d, SyncNL, "") ELSE @,
                            !.running = RunningAfter(sy, "siem_ai", o),
                            !.hung = HungAfter(sy, "siem_ai", o)]
    /\ UNCHANGED <<mode, st, rt, libVars>>

\* _do_atomic returns [] without calling the provider for a trivial union.
SyncCollectAtomicSkipped ==
    /\ sy.pc = "s5_atomic"
    /\ ~SyncRunsAtomic(sy.all_sigma_yaml)
    /\ sy' = [sy EXCEPT !.pc = "s4_exit"]
    /\ UNCHANGED <<mode, fx, st, rt, libVars>>

SyncCollectAtomic ==
    /\ sy.pc = "s5_atomic"
    /\ SyncRunsAtomic(sy.all_sigma_yaml)
    /\ \E o \in Outcomes :
        /\ CanOutcome("atomic", o)
        /\ fx' = FxAfter("atomic", o)
        /\ sy' = [sy EXCEPT !.pc = "s4_exit",
                            !.calls = @ \cup {"generate_atomic_tests_from_sigma"},
                            !.atomic_tests = IF o = "ok" THEN "TESTS" ELSE "NO_TESTS",
                            !.running = RunningAfter(sy, "atomic", o),
                            !.hung = HungAfter(sy, "atomic", o)]
    /\ UNCHANGED <<mode, st, rt, libVars>>

SyncS4Exit ==
    /\ sy.pc = "s4_exit"
    /\ sy.running \cap SyncS4Tasks = {}
    /\ sy' = [sy EXCEPT !.pc = "s3_match"]
    /\ UNCHANGED <<mode, fx, st, rt, libVars>>

\* Global Sigma match, then the record is built, saved and returned.
SyncSigmaMatch ==
    /\ sy.pc = "s3_match"
    /\ \E o \in {"ok", "raise"} :
        /\ CanOutcome("match", o)
        /\ fx' = FxAfter("match", o)
        /\ LET l == [sy EXCEPT !.sigma_matches = IF o = "ok" THEN "MATCHES" ELSE "NO_MATCHES"] IN
           sy' = [l EXCEPT !.pc = "done", !.response = {BuildResponse(l)}]
    /\ UNCHANGED <<mode, st, rt, libVars>>

SyncTaskReturns ==
    /\ \E t \in sy.running \ sy.hung : sy' = [sy EXCEPT !.running = @ \ {t}]
    /\ UNCHANGED <<mode, fx, st, rt, libVars>>

SyncStep ==
    \/ SyncStart
    \/ SyncCollectSummary \/ SyncCollectIoc \/ SyncCollectAiSigma \/ SyncS1Exit
    \/ SyncCollectYara \/ SyncCollectMitre \/ SyncCollectIocSigma \/ SyncS2Exit
    \/ SyncCollectSiemStruct \/ SyncCollectSiemAiSkipped \/ SyncCollectSiemAi
    \/ SyncCollectAtomicSkipped \/ SyncCollectAtomic \/ SyncS4Exit \/ SyncSigmaMatch


(***************************************************************************)
(* Properties of the pipeline runs                                         *)
(***************************************************************************)
NineKeys == {"threat_summary", "analysis_data", "mitre_mapping", "yara_rules",
             "ioc_sigma_rules", "generated_sigma_rules", "siem_queries",
             "atomic_tests", "sigma_matches"}

StageAt(i) == st.events[i].stage
Emitted(stage) == \E i \in 1..Len(st.events) : StageAt(i) = stage
Failed(t) == fx.k[t] = "fail"

StreamDefaultsForFailures(r) ==
    /\ Failed("summary") => r.threat_summary = "Could not generate threat summary"
    /\ Failed("ioc") => r.analysis_data = "EMPTY"
    /\ Failed("yara") => r.yara_rules = "NO_YARA"
    /\ Failed("mitre") => r.mitre_mapping = "NO_TECHNIQUES"
    /\ Failed("ioc_sigma") => r.ioc_sigma_rules = "NO_RULES"
    /\ Failed("match") => r.sigma_matches = "NO_MATCHES"
    /\ Failed("atomic") => r.atomic_tests = "NO_TESTS"

SyncDefaultsForFailures(r) ==
    /\ Failed("summary") => r.threat_summary = "Error generating threat summary"
    /\ Failed("ioc") => r.analysis_data = "EMPTY"
    /\ Failed("yara") => r.yara_rules = "NO_YARA"
    /\ Failed("mitre") => r.mitre_mapping = "NO_TECHNIQUES"
    /\ Failed("ioc_sigma") => r.ioc_sigma_rules = "NO_RULES"
    /\ Failed("siem_struct") => r.siem_queries = {}
    /\ Failed("match") => r.sigma_matches = "NO_MATCHES"
    /\ Failed("atomic") => r.atomic_tests = "NO_TESTS"

StreamCompleted ==
    /\ st.pc = "done" /\ Emitted("complete")
    /\ \E r \in st.response : DOMAIN r = NineKeys /\ StreamDefaultsForFailures(r)

SyncReturned ==
    /\ sy.pc = "done"
    /\ \E r \in sy.response : DOMAIN r = NineKeys /\ SyncDefaultsForFailures(r)

C1_RunCompleted ==
    CASE mode = "pair" -> StreamCompleted
      [] mode = "sync" -> SyncReturned
      [] OTHER -> TRUE

\* C1: whatever the outcomes (success, exception, timeout) of the stage
\* tasks, the pipeline completes -- the synchronous run returns, the
\* streaming run emits `complete` -- with a record of all nine keys in
\* which every failed stage has its default.
C1_PipelineAlwaysCompletes == <>C1_RunCompleted

StreamFutures == S1Tasks \cup S2Tasks \cup S4Tasks

\* C2: when a stage task is still running at its timeout and never
\* returns, the run takes the stage default and goes on to aggregation
\* without waiting for that task.
C2_HungTaskDoesNotBlock ==
    /\ (st.hung \cap StreamFutures # {}) ~> (st.pc = "done")
    /\ (sy.hung # {}) ~> (sy.pc = "done")

S1Events == {"ai_parallel", "threat_summary", "ioc_extraction", "ai_sigma",
             "threat_summary_done", "ioc_done"}
S2Events == {"rules", "yara_done", "mitre_done", "sigma_done"}
S4Events == {"siem", "siem_structured_done", "siem_ai_done"}
TerminalEvents == {"complete", "error"}

AllPrecede(group, stage) ==
    \A j \in 1..Len(st.events) :
        StageAt(j) = stage => \A i \in j..Len(st.events) : StageAt(i) \notin group

\* C3: the events of a streaming run come in stage order -- every S1 event
\* before `rules`, every S2 event before `sigma_match`, `sigma_match_done`
\* before `siem`, every S4 event before `atomic_tests` -- and the terminal
\* event (`complete` or `error`) is emitted once, as the last event: no
\* event follows a terminal event, a finished run holds exactly one and an
\* unfinished run none.
C3_EventsInStageOrder ==
    /\ AllPrecede(S1Events, "rules")
    /\ AllPrecede(S2Events, "sigma_match")
    /\ AllPrecede({"sigma_match_done"}, "siem")
    /\ AllPrecede(S4Events, "atomic_tests")
    /\ \A i \in 1..Len(st.events) : StageAt(i) \in TerminalEvents => i = Len(st.events)
    /\ st.pc = "done" => Cardinality({i \in 1..Len(st.events) : StageAt(i) \in TerminalEvents}) = 1
    /\ st.pc # "done" => ~\E i \in 1..Len(st.events) : StageAt(i) \in TerminalEvents

\* C3 witness: a run with a failed task that went through all five stages
\* and emitted `complete`.
C3_Witness ==
    /\ st.pc = "done" /\ Emitted("complete") /\ Emitted("atomic_tests_done")
    /\ Emitted("siem_structured_done") /\ Failed("mitre")

\* C4 as claimed: the progress values of successive events never decrease,
\* also in runs that end with an `error` event.
C4_ProgressNeverDecreases ==
    \A i \in 1..(Len(st.events) - 1) :
        st.events[i].progress <= st.events[i + 1].progress

\* C4 as amended: the progress values of successive events never decrease,
\* except at the terminal `error` event, whose progress is 0.
C4_ProgressNonDecreasingUntilError ==
    \A i \in 1..(Len(st.events) - 1) :
        IF StageAt(i + 1) = "error"
        THEN st.events[i + 1].progress = 0 /\ i + 1 = Len(st.events)
        ELSE st.events[i].progress <= st.events[i + 1].progress

\* C4 witness: a completed run in which tasks failed or timed out and the
\* atomic-test stage ran.
C4_Witness ==
    /\ st.pc = "done" /\ Emitted("complete") /\ Emitted("atomic_tests")
    /\ Emitted("siem_ai_done") /\ Failed("summary") /\ Failed("siem_struct")

AiSigmaFailed ==
    \/ Failed("ai_sigma")
    \/ fx.k["ai_sigma"] = "ok" /\ StartsWithError(fx.sigma)

HasMarker(q) == \E i \in 1..Len(q) : q[i] = "MARK"

C5_CompletedWithoutAiSigma ==
    /\ st.pc = "done" /\ Emitted("complete")
    /\ "convert_sigma_to_siem_queries" \notin st.calls
    /\ \E r \in st.response :
        /\ r.generated_sigma_rules = st.ioc_sigma_yaml
        /\ \A e \in r.siem_queries : ~HasMarker(e.query)

\* C5: when the AI-Sigma task fails (raises, times out, or returns its
\* error fallback), the run still reaches `complete`, generated_sigma_rules
\* is the structural YAML alone, the AI SIEM conversion is not invoked and
\* no siem_queries entry carries the AI-Refined marker.  (Runs in which
\* another task never returns are left aside.)
C5_AiSigmaFailureStillCompletes ==
    (mode = "pair" /\ st.pc = "s1_exit" /\ AiSigmaFailed)
        ~> (C5_CompletedWithoutAiSigma \/ st.hung \ {"ai_sigma"} # {})

\* C6: on the same inputs and task outcomes, the record of the streaming
\* run's `complete` event equals the record returned by the synchronous
\* run, and stage S5 is invoked in the one exactly when it is in the other.
C6_StreamEqualsSync ==
    (mode = "pair" /\ st.pc = "done" /\ sy.pc = "done") =>
        /\ st.response = sy.response
        /\ ("generate_atomic_tests_from_sigma" \in st.calls)
             <=> ("generate_atomic_tests_from_sigma" \in sy.calls)

CompletionsOf(start) ==
    CASE start = "threat_summary" -> {"threat_summary_done"}
      [] start = "ioc_extraction" -> {"ioc_done"}
      [] start = "ai_sigma" -> {"ai_sigma_done"}
      [] start = "rules" -> {"yara_done", "mitre_done", "sigma_done"}
      [] start = "sigma_match" -> {"sigma_match_done"}
      [] start = "siem" -> {"siem_structured_done", "siem_ai_done"}
      [] start = "atomic_tests" -> {"atomic_tests_done"}
      [] OTHER -> {}

StartEvents == {"threat_summary", "ioc_extraction", "ai_sigma", "rules",
                "sigma_match", "siem", "atomic_tests"}

\* C7: in a run that emitted `complete`, every start event is followed by
\* a completion event of its stage or task, whether the work succeeded,
\* raised or timed out.
C7_EveryStartHasCompletion ==
    Emitted("complete") =>
        \A i \in 1..Len(st.events) :
            StageAt(i) \in StartEvents =>
                \E j \in (i + 1)..Len(st.events) : StageAt(j) \in CompletionsOf(StageAt(i))

(***************************************************************************)
(* retry_handler.py                                                        *)
(***************************************************************************)
NoAttr == -1

\* Keyword groups that classify_error looks for in str(error).lower().
Messages == {"rate limit exceeded", "401 unauthorized", "model not found",
             "503 timeout", "slow down", "quota exceeded (401)"}

HasRateLimitKw(m) == m \in {"rate limit exceeded", "quota exceeded (401)"}
HasAuthKw(m) == m \in {"401 unauthorized", "quota exceeded (401)"}
HasNotFoundKw(m) == m = "model not found"
HasTransientKw(m) == m = "503 timeout"

\* Exceptions the wrapped call can raise: a RateLimitError always carries
\* retry_after (0 by default); a plain vendor exception carries none.
Errors ==
    [type : {"RateLimitError"}, msg : Messages, retry_after : {0, 2}]
      \cup [type : {"Exception"}, msg : Messages, retry_after : {NoAttr}]

\* classify_error: keyword tests on the message text, in source order.
classify_error(e) ==
    IF HasRateLimitKw(e.msg)
    THEN [kind |-> "rate_limit", retryable |-> TRUE,
          retry_after |-> IF e.retry_after # NoAttr THEN e.retry_after ELSE 0,
          msg |-> e.msg]
    ELSE IF HasAuthKw(e.msg)
    THEN [kind |-> "auth", retryable |-> FALSE, retry_after |-> 0, msg |-> e.msg]
    ELSE IF HasNotFoundKw(e.msg)
    THEN [kind |-> "not_found", retryable |-> FALSE, retry_after |-> 0, msg |-> e.msg]
    ELSE IF HasTransientKw(e.msg)
    THEN [kind |-> "transient", retryable |-> TRUE, retry_after |-> 0, msg |-> e.msg]
    ELSE [kind |-> "fatal", retryable |-> FALSE, retry_after |-> 0, msg |-> e.msg]

BaseDelays == {1, 2}
MaxDelays == {3, 60}

\* Sleep durations are kept in units of 1/(2*JitterDen) second, so that
\* delay * (0.5 + j/JitterDen) is an integer.
Scaled(seconds) == seconds * 2 * JitterDen

BackoffCap(base, maxd, attempt) == Min(base * Pow2(attempt), maxd)

\* A variant jitter factor random() without the 0.5 floor.
JitteredNoFloor(base, maxd, attempt, j) == BackoffCap(base, maxd, attempt) * (2 * j)

\* delay = min(base * 2**attempt, max_delay); delay *= 0.5 + random.random()
Jittered(base, maxd, attempt, j) ==
    BackoffCap(base, maxd, attempt) * (JitterDen + 2 * j)

\* The delay slept after a retryable failure of the given attempt.
RetryDelay(c, base, maxd, attempt, j) ==
    IF c.kind = "rate_limit" /\ c.retry_after > 0
    THEN Scaled(c.retry_after)
    ELSE Jittered(base, maxd, attempt, j)

\* `if attempt < max_retries:` -- sleep only when another attempt follows.
ShouldSleep(attempt, n) == attempt < n

\* A variant wrapper that retries every classified error.
GivesUpNever(c) == FALSE

\* `if not classified.retryable: raise classified from e`
GivesUp(c) == ~c.retryable


RtInit ==
    /\ PipeIdle
    /\ LibIdle
    /\ \E n \in 0..MaxRetries, b \in BaseDelays, m \in MaxDelays :
        rt = [pc |-> "loop", max_retries |-> n, base_delay |-> b, max_delay |-> m,
              attempt |-> 0, calls |-> 0, thrown |-> <<>>, sleeps |-> <<>>,
              last_exception |-> NoError, raised |-> NoError, result |-> "none"]

\* One loop iteration whose call returns: `return func(*args, **kwargs)`.
RtCallReturns ==
    /\ rt.pc = "loop"
    /\ rt.attempt <= rt.max_retries
    /\ rt' = [rt EXCEPT !.pc = "returned", !.calls = @ + 1, !.result = "ok"]
    /\ UNCHANGED <<pipeVars, libVars>>

\* One loop iteration whose call raises a non-retryable error.
RtCallFatal ==
    /\ rt.pc = "loop"
    /\ rt.attempt <= rt.max_retries
    /\ \E e \in Errors :
        LET c == classify_error(e) IN
        /\ GivesUp(c)
        /\ rt' = [rt EXCEPT !.pc = "raised", !.calls = @ + 1,
                            !.thrown = Append(@, e), !.raised = c]
    /\ UNCHANGED <<pipeVars, libVars>>

\* One loop iteration whose call raises a retryable error: remember it,
\* sleep if another attempt follows, and go round the loop.
RtCallRetryable ==
    /\ rt.pc = "loop"
    /\ rt.attempt <= rt.max_retries
    /\ \E e \in Errors, j \in 0..(JitterDen - 1) :
        LET c == classify_error(e) IN
        /\ ~GivesUp(c)
        /\ rt' = [rt EXCEPT !.calls = @ + 1,
                            !.thrown = Append(@, e),
                            !.last_exception = c,
                            !.sleeps = IF ShouldSleep(rt.attempt, rt.max_retries)
                                       THEN Append(@, RetryDelay(c, rt.base_delay, rt.max_delay, rt.attempt, j))
                                       ELSE @,
                            !.attempt = @ + 1]
    /\ UNCHANGED <<pipeVars, libVars>>

\* After the loop: `raise last_exception`.
RtExhausted ==
    /\ rt.pc = "loop"
    /\ rt.attempt > rt.max_retries
    /\ rt' = [rt EXCEPT !.pc = "raised", !.raised = rt.last_exception]
    /\ UNCHANGED <<pipeVars, libVars>>

RtNext == RtCallReturns \/ RtCallFatal \/ RtCallRetryable \/ RtExhausted

SpecRetry == RtInit /\ [][RtNext]_vars

PipeNext ==
    \/ AppFetch \/ AppOcr \/ StreamStart
    \/ StreamCollectSummary \/ StreamCollectIoc \/ StreamCollectAiSigma \/ StreamS1Exit
    \/ StreamCollectYara \/ StreamCollectMitre \/ StreamCollectIocSigma \/ StreamS2Exit
    \/ StreamSigmaMatch \/ StreamCollectSiemStruct \/ StreamCollectSiemAiSkipped
    \/ StreamCollectSiemAi \/ StreamS4Exit \/ StreamAtomic \/ StreamFinalize
    \/ StreamTaskReturns
    \/ SyncStart
    \/ SyncCollectSummary \/ SyncCollectIoc \/ SyncCollectAiSigma \/ SyncS1Exit
    \/ SyncCollectYara \/ SyncCollectMitre \/ SyncCollectIocSigma \/ SyncS2Exit
    \/ SyncCollectSiemStruct \/ SyncCollectSiemAiSkipped \/ SyncCollectSiemAi
    \/ SyncCollectAtomicSkipped \/ SyncCollectAtomic \/ SyncS4Exit \/ SyncSigmaMatch
    \/ SyncTaskReturns

Spec == PipeInit /\ [][PipeNext]_vars

\* The generator and the synchronous function run to their next step
\* whenever they can, and a task that is merely slow does return.
FairSpec ==
    /\ Spec
    /\ WF_vars(StreamStep)
    /\ WF_vars(SyncStep)
    /\ WF_vars(StreamTaskReturns)
    /\ WF_vars(SyncTaskReturns)

RtThrownKinds == {classify_error(rt.thrown[i]).kind : i \in 1..Len(rt.thrown)}

\* C8: a call that always raises a transient-classified error is invoked
\* exactly max_retries + 1 times, the wrapper sleeps exactly max_retries
\* times (never after the last attempt), sleep i lasts at least
\* 0.5 * min(base_delay * 2^i, max_delay), and the classified error of the
\* last attempt is raised.
C8_TransientExhaustsRetries ==
    (rt.pc = "raised" /\ rt.thrown # <<>> /\ RtThrownKinds = {"transient"}) =>
        /\ rt.calls = rt.max_retries + 1
        /\ Len(rt.sleeps) = rt.max_retries
        /\ \A i \in 1..Len(rt.sleeps) :
              rt.sleeps[i] >= JitterDen * BackoffCap(rt.base_delay, rt.max_delay, i - 1)
        /\ rt.raised = classify_error(rt.thrown[Len(rt.thrown)])

\* C8 witness: two retries were exhausted on transient errors, the second
\* sleep being capped by max_delay.
C8_Witness ==
    /\ rt.pc = "raised" /\ rt.thrown # <<>> /\ RtThrownKinds = {"transient"}
    /\ rt.max_retries = 2 /\ rt.calls = 3 /\ Len(rt.sleeps) = 2
    /\ rt.base_delay = 2 /\ rt.max_delay = 3

RtIsRateLimitError(e) == e.type = "RateLimitError" /\ e.retry_after > 0

\* C9: when the call raises RateLimitError(retry_after = r > 0) on its
\* first attempts -- whatever the message text -- the wrapper (max_retries
\* >= 2) sleeps exactly r after each of them and does not give up; a value
\* returned on attempt 3 is returned after three calls and two sleeps of r.
C9_RetryAfterHonouredForAnyMessage ==
    LET n == Len(rt.thrown) IN
    (rt.max_retries >= 2 /\ n \in 1..2 /\ \A i \in 1..n : RtIsRateLimitError(rt.thrown[i])) =>
        /\ rt.pc # "raised"
        /\ rt.sleeps = [i \in 1..n |-> Scaled(rt.thrown[i].retry_after)]
        /\ (rt.pc = "returned" /\ n = 2) => (rt.calls = 3 /\ rt.result = "ok")

\* C10: an error classified as non-retryable (authentication, model not
\* found, fatal) is re-raised, classified, right after the invocation that
\* raised it: no sleep follows it and no further attempt is made, on
\* whichever attempt it occurs.
C10_NonRetryablePropagatesAtOnce ==
    LET n == Len(rt.thrown) IN
    (n >= 1 /\ ~classify_error(rt.thrown[n]).retryable) =>
        /\ rt.pc = "raised"
        /\ rt.raised = classify_error(rt.thrown[n])
        /\ rt.raised.kind \in {"auth", "not_found", "fatal"}
        /\ rt.calls = n
        /\ Len(rt.sleeps) = n - 1

\* C10 witness: an authentication error on the second attempt, after one
\* retried failure.
C10_Witness ==
    /\ rt.pc = "raised" /\ rt.calls = 2 /\ Len(rt.sleeps) = 1
    /\ rt.raised.kind = "auth"

(***************************************************************************)
(* AI task functions (modules/ai_engine.py): each is decorated with        *)
(* with_retry(max_retries=2, base_delay=2.0) and runs its whole body, the  *)
(* provider call included, inside try / except Exception.                  *)
(***************************************************************************)
EngineTasks == {"summarize_threat_report", "extract_iocs_ttps_gpt",
                "refine_sigma_queries_with_gpt",
                "generate_more_sigma_rules_from_article",
                "convert_sigma_to_siem_queries",
                "generate_atomic_tests_from_sigma"}

\* @with_retry(max_retries=2, ...)
EngineMaxRetries == 2

\* Tasks that look the response cache up before calling the provider.
CachedTasks == {"summarize_threat_report", "extract_iocs_ttps_gpt",
                "convert_sigma_to_siem_queries",
                "generate_atomic_tests_from_sigma"}

\* Tasks that parse the provider's text as JSON.
ParsingTasks == {"extract_iocs_ttps_gpt", "convert_sigma_to_siem_queries",
                 "generate_atomic_tests_from_sigma"}

\* What the task returns from its except clause.
Fallback(task) ==
    CASE task = "summarize_threat_report" -> "Could not generate threat summary."
      [] task = "extract_iocs_ttps_gpt" -> "{}"
      [] task = "refine_sigma_queries_with_gpt" -> "Error refining output."
      [] task = "generate_more_sigma_rules_from_article" -> "Error generating extra Sigma rules."
      [] task = "convert_sigma_to_siem_queries" -> "create_fallback_siem_queries"
      [] OTHER -> "[]"

\* `except Exception as e:` around the body of every task.
BodyCatches(task) == task \in EngineTasks

OtherThanEngine == <<rt, pipeVars, ca, pv, ov, mm, moreVars>>

EnInit ==
    /\ RtIdle
    /\ PipeIdle
    /\ CaIdle /\ PvIdle /\ OvIdle /\ MmIdle /\ MoreIdle
    /\ \E t \in EngineTasks, hit \in BOOLEAN :
        /\ hit => t \in CachedTasks
        /\ en = [pc |-> "wrapper", task |-> t, cached |-> hit, attempt |-> 0,
                 task_calls |-> 0, provider_calls |-> 0, thrown |-> <<>>,
                 sleeps |-> 0, result |-> "none", raised |-> NoError]

\* wrapper: `return func(*args, **kwargs)` enters the task body.
EnCallTask ==
    /\ en.pc = "wrapper"
    /\ en.attempt <= EngineMaxRetries
    /\ en' = [en EXCEPT !.task_calls = @ + 1,
                        !.pc = IF en.task \in CachedTasks THEN "lookup" ELSE "generate"]
    /\ UNCHANGED OtherThanEngine

\* `cached = cache.get(cache_key); if cached: return cached`
EnCacheHit ==
    /\ en.pc = "lookup"
    /\ en.cached
    /\ en' = [en EXCEPT !.pc = "done", !.result = "cached"]
    /\ UNCHANGED OtherThanEngine

EnCacheMiss ==
    /\ en.pc = "lookup"
    /\ ~en.cached
    /\ en' = [en EXCEPT !.pc = "generate"]
    /\ UNCHANGED OtherThanEngine

\* `response = ai.generate(messages, temperature=0.1)` returns usable text.
EnGenerateReturns ==
    /\ en.pc = "generate"
    /\ en' = [en EXCEPT !.provider_calls = @ + 1, !.pc = "done", !.result = "value"]
    /\ UNCHANGED OtherThanEngine

\* The provider returns text that the task cannot parse.
EnGenerateUnparseable ==
    /\ en.pc = "generate"
    /\ en.task \in ParsingTasks
    /\ en' = [en EXCEPT !.provider_calls = @ + 1, !.pc = "done",
                        !.result = Fallback(en.task)]
    /\ UNCHANGED OtherThanEngine

\* ai.generate raises e.  The task's own except clause sees it first; only
\* an exception that leaves the task reaches the wrapper's retry loop.
EnGenerateRaises ==
    /\ en.pc = "generate"
    /\ \E e \in Errors :
        LET c == classify_error(e) IN
        en' = IF BodyCatches(en.task)
              THEN [en EXCEPT !.provider_calls = @ + 1, !.thrown = Append(@, e),
                              !.pc = "done", !.result = Fallback(en.task)]
              ELSE IF GivesUp(c) \/ en.attempt = EngineMaxRetries
              THEN [en EXCEPT !.provider_calls = @ + 1, !.thrown = Append(@, e),
                              !.pc = "raised", !.raised = c]
              ELSE [en EXCEPT !.provider_calls = @ + 1, !.thrown = Append(@, e),
                              !.pc = "wrapper", !.attempt = @ + 1, !.sleeps = @ + 1]
    /\ UNCHANGED OtherThanEngine

EnNext ==
    \/ EnCallTask
    \/ EnCacheHit
    \/ EnCacheMiss
    \/ EnGenerateReturns
    \/ EnGenerateUnparseable
    \/ EnGenerateRaises

SpecEngine == EnInit /\ [][EnNext]_vars

EnAllTransient ==
    /\ Len(en.thrown) > 0
    /\ \A i \in 1..Len(en.thrown) : classify_error(en.thrown[i]).kind = "transient"

\* C11: when the provider's generate call raises a transient error inside an
\* ai_engine task, the provider call is attempted again, so that the task
\* yields its fallback value only after max_retries + 1 = 3 invocations.
C11_TransientProviderErrorIsRetried ==
    (en.pc = "done" /\ en.result = Fallback(en.task) /\ EnAllTransient)
        => en.provider_calls = EngineMaxRetries + 1

(***************************************************************************)
(* ResponseCache (modules/pipeline/cache.py): an OrderedDict of            *)
(* key -> {value, timestamp}, oldest first, every operation inside         *)
(* `with self._lock`.                                                      *)
(***************************************************************************)
\* The clock runs from 0 to MaxTime.
MaxTime == 3

CacheThreads == {1, 2}
CacheKeys == {"k1", "k2", "k3"}
CacheValues == {"v1", "v2"}
CacheSizes == {1, 2}
CacheTtls == {1, 2}

Miss == "None"
NoWrite == [value |-> "None", timestamp |-> -1]
NoPending == [key |-> "", value |-> ""]
NoOp == [op |-> "none", key |-> "", result |-> "", wrote |-> NoWrite, at |-> 0,
         before |-> {}, lru |-> <<>>, full |-> FALSE, present |-> FALSE]

CacheKeysOf(cache) == { cache[i].key : i \in 1..Len(cache) }

CacheIndex(cache, k) ==
    IF \E i \in 1..Len(cache) : cache[i].key = k
    THEN CHOOSE i \in 1..Len(cache) : cache[i].key = k
    ELSE 0

CacheHas(cache, k) == CacheIndex(cache, k) # 0

\* del self._cache[key]
CacheDel(cache, k) == SelectSeq(cache, LAMBDA e : e.key # k)

\* self._cache.move_to_end(key)
MoveToEnd(cache, k) == Append(CacheDel(cache, k), cache[CacheIndex(cache, k)])

\* A variant that treats an entry as expired once its age reaches the TTL.
ExpiredAtTtl(entry, now, ttl) == now - entry.timestamp >= ttl

\* `time.time() - entry["timestamp"] > self._ttl`
Expired(entry, now, ttl) == now - entry.timestamp > ttl

\* `self._cache.popitem(last=False)`: the first entry leaves the cache.
PopItem(cache) == [evicted_key |-> Head(cache).key, rest |-> Tail(cache)]

\* A variant in which the operations do not exclude each other.
NoLock(t) == TRUE

\* `with self._lock:` -- the lock is free (0) or held by a thread.
CanAcquire(t) == ca.lock = 0

\* Recency list kept beside the cache: keys in the order of their most
\* recent set or hit-get, oldest first.
Touch(recent, k) == Append(SelectSeq(recent, LAMBDA x : x # k), k)
Forget(recent, k) == SelectSeq(recent, LAMBDA x : x # k)

OtherThanCache == <<rt, pipeVars, en, pv, ov, mm, moreVars>>

CaInit ==
    /\ RtIdle
    /\ PipeIdle
    /\ EnIdle /\ PvIdle /\ OvIdle /\ MmIdle /\ MoreIdle
    /\ \E n \in CacheSizes, ttl \in CacheTtls :
        ca = [cache |-> <<>>, max_size |-> n, ttl |-> ttl, lock |-> 0,
              pending |-> [t \in CacheThreads |-> NoPending],
              now |-> 0, recent |-> <<>>,
              written |-> [k \in CacheKeys |-> NoWrite], last |-> NoOp]

\* time.time() moves on.
CaTick ==
    /\ ca.now < MaxTime
    /\ ca' = [ca EXCEPT !.now = @ + 1, !.last = NoOp]
    /\ UNCHANGED OtherThanCache

\* get(key): missing, expired (deleted) or hit (moved to the end).
CacheGet ==
    /\ \E t \in CacheThreads, k \in CacheKeys :
        /\ CanAcquire(t)
        /\ ca.pending[t] = NoPending
        /\ LET i == CacheIndex(ca.cache, k)
               op == [NoOp EXCEPT !.op = "get", !.key = k, !.at = ca.now,
                                  !.wrote = ca.written[k]]
           IN IF i = 0
              THEN ca' = [ca EXCEPT !.last = [op EXCEPT !.result = Miss]]
              ELSE IF Expired(ca.cache[i], ca.now, ca.ttl)
              THEN ca' = [ca EXCEPT !.cache = CacheDel(@, k),
                                    !.recent = Forget(@, k),
                                    !.last = [op EXCEPT !.result = Miss]]
              ELSE ca' = [ca EXCEPT !.cache = MoveToEnd(@, k),
                                    !.recent = Touch(@, k),
                                    !.last = [op EXCEPT !.result = ca.cache[i].value]]
    /\ UNCHANGED OtherThanCache

\* set(key, value), first half: take the lock, and for a new key at
\* capacity remove the oldest entry.
CacheSetEvict ==
    /\ \E t \in CacheThreads, k \in CacheKeys, v \in CacheValues :
        /\ CanAcquire(t)
        /\ ca.pending[t] = NoPending
        /\ LET has == CacheHas(ca.cache, k)
               full == Len(ca.cache) >= ca.max_size
               op == [NoOp EXCEPT !.op = "set", !.key = k, !.at = ca.now,
                                  !.before = CacheKeysOf(ca.cache),
                                  !.lru = ca.recent, !.full = full,
                                  !.present = has]
           IN IF ~has /\ full
              THEN ca' = [ca EXCEPT !.lock = t,
                                    !.pending[t] = [key |-> k, value |-> v],
                                    !.cache = PopItem(@).rest,
                                    !.recent = Forget(@, PopItem(ca.cache).evicted_key),
                                    !.written[PopItem(ca.cache).evicted_key] = NoWrite,
                                    !.last = op]
              ELSE ca' = [ca EXCEPT !.lock = t,
                                    !.pending[t] = [key |-> k, value |-> v],
                                    !.last = op]
    /\ UNCHANGED OtherThanCache

\* set(key, value), second half: store the entry with the current time and
\* leave the lock.
CacheSetStore ==
    /\ \E t \in CacheThreads :
        /\ ca.pending[t] # NoPending
        /\ LET k == ca.pending[t].key
               e == [key |-> k, value |-> ca.pending[t].value, timestamp |-> ca.now]
           IN ca' = [ca EXCEPT !.cache = Append(CacheDel(@, k), e),
                               !.recent = Touch(@, k),
                               !.written[k] = [value |-> e.value, timestamp |-> ca.now],
                               !.pending[t] = NoPending,
                               !.lock = IF @ = t THEN 0 ELSE @,
                               !.last = [ca.last EXCEPT !.op = "stored", !.key = k]]
    /\ UNCHANGED OtherThanCache

\* invalidate(key)
CacheInvalidate ==
    /\ \E t \in CacheThreads, k \in CacheKeys :
        /\ CanAcquire(t)
        /\ ca.pending[t] = NoPending
        /\ ca' = [ca EXCEPT !.cache = CacheDel(@, k),
                            !.recent = Forget(@, k),
                            !.written[k] = NoWrite,
                            !.last = [NoOp EXCEPT !.op = "invalidate", !.key = k,
                                                  !.result = IF CacheHas(ca.cache, k)
                                                             THEN "True" ELSE "False"]]
    /\ UNCHANGED OtherThanCache

\* clear()
CacheClear ==
    /\ \E t \in CacheThreads :
        /\ CanAcquire(t)
        /\ ca.pending[t] = NoPending
        /\ ca.cache # <<>>
        /\ ca' = [ca EXCEPT !.cache = <<>>, !.recent = <<>>,
                            !.written = [k \in CacheKeys |-> NoWrite],
                            !.last = [NoOp EXCEPT !.op = "clear"]]
    /\ UNCHANGED OtherThanCache

CaNext ==
    \/ CaTick
    \/ CacheGet
    \/ CacheSetEvict
    \/ CacheSetStore
    \/ CacheInvalidate
    \/ CacheClear

SpecCache == CaInit /\ [][CaNext]_vars

\* C12: after set(k, v), and as long as k has not since been overwritten,
\* evicted, invalidated or cleared, get(k) returns v whenever the time since
\* the set is at most ttl, and returns a miss, removing the entry, whenever
\* it exceeds ttl.
C12_GetReturnsValueWithinTtl ==
    (ca.last.op = "get" /\ ca.last.wrote # NoWrite) =>
        IF ca.last.at - ca.last.wrote.timestamp <= ca.ttl
        THEN ca.last.result = ca.last.wrote.value
        ELSE ca.last.result = Miss /\ ~CacheHas(ca.cache, ca.last.key)

\* C12 witness: a get that hits an entry whose age is exactly ttl.
C12_Witness ==
    /\ ca.last.op = "get"
    /\ ca.last.wrote # NoWrite
    /\ ca.last.at - ca.last.wrote.timestamp = ca.ttl
    /\ ca.last.result = ca.last.wrote.value

\* C13: under any interleaving of get/set/invalidate/clear by the threads the
\* cache holds at most max_size entries; a set of a new key at capacity
\* evicts exactly one entry, the one whose most recent set or hit-get is the
\* oldest, and a set of a key already present evicts nothing.
C13_BoundedWithLruEviction ==
    /\ Len(ca.cache) <= ca.max_size
    /\ ca.last.op = "set" =>
        ca.last.before \ CacheKeysOf(ca.cache) =
            IF ~ca.last.present /\ ca.last.full THEN {Head(ca.last.lru)} ELSE {}

\* C13 witness: a set of a new key into a full cache of two entries whose
\* older-inserted entry was used more recently than the other.
C13_Witness ==
    /\ ca.last.op = "set"
    /\ ~ca.last.present
    /\ ca.last.full
    /\ Len(ca.last.lru) = 2
    /\ Len(ca.cache) = 1
    /\ ca.cache[1].timestamp < ca.now
    /\ ca.written[Head(ca.last.lru)] = NoWrite

(***************************************************************************)
(* Provider selection (api/app.py, modules/middleware.py,                  *)
(* modules/ai_engine.py) and the vendor requests built by the providers    *)
(* (modules/ai/openai_provider.py, anthropic_provider.py,                  *)
(* google_provider.py).                                                    *)
(***************************************************************************)
\* Longest message list handed to a provider.
MaxMessages == 3

Providers == {"openai", "anthropic", "google"}

\* API keys, by what they start with; "" is no key.
ApiKeys == {"", "sk-ant-KEY", "AIzaKEY", "sk-KEY"}

\* `api_key.startswith('sk-ant-')` / `api_key.startswith('AIza')`
StartsWithSkAnt(k) == k = "sk-ant-KEY"
StartsWithAIza(k) == k = "AIzaKEY"

\* The provider named by the key prefix alone.
PrefixProvider(k) ==
    IF StartsWithSkAnt(k) THEN "anthropic"
    ELSE IF StartsWithAIza(k) THEN "google"
    ELSE "openai"

NoSession == [api_key |-> "", provider |-> ""]
Sessions == {NoSession} \cup [api_key : ApiKeys \ {""}, provider : Providers]

\* _extract_provider_params(data): data["provider"] ("" when absent), the
\* key of the body, and the validated session (NoSession when there is no
\* valid token).
ExtractProviderParams(data_provider, body_key, session) ==
    LET has_session == session # NoSession
        api_key == IF has_session THEN session.api_key ELSE body_key
        named == IF has_session /\ data_provider = "" THEN session.provider
                 ELSE IF data_provider = "" THEN "openai"
                 ELSE data_provider
        provider_name == IF named = "openai" /\ api_key # "" /\ StartsWithSkAnt(api_key)
                         THEN "anthropic"
                         ELSE IF named = "openai" /\ api_key # "" /\ StartsWithAIza(api_key)
                         THEN "google"
                         ELSE named
    IN [api_key |-> api_key, provider_name |-> provider_name]

\* _resolve_provider(None, openai_api_key, provider_name, model_name): the
\* name handed to get_provider.
ResolveProviderName(openai_api_key, provider_name) ==
    IF openai_api_key # "" THEN PrefixProvider(openai_api_key) ELSE provider_name

Roles == {"system", "user", "assistant"}

\* Message i of a list carries its own content, so that order is visible.
MessageText(i) == <<CASE i = 1 -> "m1" [] i = 2 -> "m2" [] i = 3 -> "m3" [] OTHER -> "m4">>

RECURSIVE RoleSeqs(_)
RoleSeqs(n) ==
    IF n = 0 THEN {<<>>}
    ELSE RoleSeqs(n - 1) \cup
         { Append(q, r) : q \in { x \in RoleSeqs(n - 1) : Len(x) = n - 1 }, r \in Roles }

MessageLists ==
    { [i \in 1..Len(q) |-> [role |-> q[i], content |-> MessageText(i)]] : q \in RoleSeqs(MaxMessages) }

Models == [openai |-> {"gpt-4o", "o3-mini"},
           anthropic |-> {"claude-sonnet-4-20250514"},
           google |-> {"gemini-2.5-flash"}]

\* `model_id in O_SERIES_MODELS`
IsOSeries(model_id) == model_id = "o3-mini"

NoRequest == [api |-> "none", messages |-> <<>>, system |-> <<>>,
              has_system |-> FALSE, token_param |-> "none", temperature |-> FALSE]

\* "\n".join(parts)
JoinLines(parts) == Join(parts, <<"NL">>)

SystemContents(messages) ==
    LET sys == SelectSeq(messages, LAMBDA m : m.role = "system")
    IN [i \in 1..Len(sys) |-> sys[i].content]

\* OpenAIProvider._generate_native: the chat.completions request.
RECURSIVE OpenAIFormatted(_, _)
OpenAIFormatted(messages, is_o_series) ==
    IF messages = <<>> THEN <<>>
    ELSE LET m == Head(messages)
             rest == OpenAIFormatted(Tail(messages), is_o_series)
         IN IF is_o_series /\ m.role = "system"
            THEN <<[role |-> "developer", content |-> m.content]>> \o rest
            ELSE IF is_o_series /\ m.role = "assistant"
            THEN rest
            ELSE <<m>> \o rest

OpenAINativeRequest(messages, model_id) ==
    [api |-> "chat.completions",
     messages |-> OpenAIFormatted(messages, IsOSeries(model_id)),
     system |-> <<>>, has_system |-> FALSE,
     token_param |-> IF IsOSeries(model_id) THEN "max_completion_tokens" ELSE "max_tokens",
     temperature |-> ~IsOSeries(model_id)]

\* OpenAIProvider._generate_langchain: ChatOpenAI(...).invoke(lc_messages).
OpenAILangchainRequest(messages, model_id) ==
    [api |-> "langchain",
     messages |-> [i \in 1..Len(messages) |->
                     [role |-> IF messages[i].role = "system" THEN "system" ELSE "human",
                      content |-> messages[i].content]],
     system |-> <<>>, has_system |-> FALSE,
     token_param |-> "none",
     temperature |-> ~IsOSeries(model_id)]

\* OpenAIProvider.generate_stream with the native client.
OpenAIStreamRequest(messages, model_id) ==
    [api |-> "chat.completions",
     messages |-> messages,
     system |-> <<>>, has_system |-> FALSE,
     token_param |-> IF IsOSeries(model_id) THEN "max_completion_tokens" ELSE "max_tokens",
     temperature |-> ~IsOSeries(model_id)]

\* AnthropicProvider.generate and generate_stream build the same params.
AnthropicRequest(messages) ==
    LET sys == SystemContents(messages)
        user_messages == SelectSeq(messages, LAMBDA m : m.role # "system")
        system_prompt == Strip(JoinLines(sys))
    IN IF user_messages = <<>>
       THEN [api |-> "messages",
             messages |-> <<[role |-> "user", content |-> system_prompt]>>,
             system |-> <<>>, has_system |-> FALSE,
             token_param |-> "max_tokens", temperature |-> TRUE]
       ELSE [api |-> "messages", messages |-> user_messages,
             system |-> system_prompt, has_system |-> system_prompt # <<>>,
             token_param |-> "max_tokens", temperature |-> TRUE]

\* GoogleProvider._build_contents
GoogleContents(messages) ==
    LET kept == SelectSeq(messages, LAMBDA m : m.role \in {"user", "assistant"})
    IN [i \in 1..Len(kept) |->
          [role |-> IF kept[i].role = "assistant" THEN "model" ELSE "user",
           content |-> kept[i].content]]

\* GoogleProvider.generate: a list without user contents is sent as one user
\* message and the model is rebuilt without system_instruction.
GoogleRequest(messages) ==
    LET system_parts == SystemContents(messages)
        contents == GoogleContents(messages)
    IN IF contents = <<>>
       THEN [api |-> "generate_content",
             messages |-> <<[role |-> "user", content |-> JoinLines(system_parts)]>>,
             system |-> <<>>, has_system |-> FALSE,
             token_param |-> "max_output_tokens", temperature |-> TRUE]
       ELSE [api |-> "generate_content", messages |-> contents,
             system |-> JoinLines(system_parts), has_system |-> system_parts # <<>>,
             token_param |-> "max_output_tokens", temperature |-> TRUE]

\* GoogleProvider.generate_stream: the model built with system_instruction
\* is kept also when the system text is sent as the user message.
GoogleStreamRequest(messages) ==
    LET system_parts == SystemContents(messages)
        contents == GoogleContents(messages)
    IN [api |-> "generate_content",
        messages |-> IF contents = <<>>
                     THEN <<[role |-> "user", content |-> JoinLines(system_parts)]>>
                     ELSE contents,
        system |-> IF system_parts # <<>> THEN JoinLines(system_parts) ELSE <<>>,
        has_system |-> system_parts # <<>>,
        token_param |-> "max_output_tokens", temperature |-> TRUE]

\* provider.generate(messages, model)
GenerateRequest(provider, has_client, messages, model_id) ==
    CASE provider = "openai" ->
           IF has_client THEN OpenAINativeRequest(messages, model_id)
           ELSE OpenAILangchainRequest(messages, model_id)
      [] provider = "anthropic" -> AnthropicRequest(messages)
      [] OTHER -> GoogleRequest(messages)

\* provider.generate_stream(messages, model)
StreamRequest(provider, has_client, messages, model_id) ==
    CASE provider = "openai" ->
           IF has_client THEN OpenAIStreamRequest(messages, model_id)
           ELSE GenerateRequest(provider, has_client, messages, model_id)
      [] provider = "anthropic" -> AnthropicRequest(messages)
      [] OTHER -> GoogleStreamRequest(messages)

OtherThanProvider == <<rt, pipeVars, en, ca, ov, mm, moreVars>>

PvInit ==
    /\ RtIdle
    /\ PipeIdle
    /\ EnIdle /\ CaIdle /\ OvIdle /\ MmIdle /\ MoreIdle
    /\ \/ \E dp \in Providers \cup {""}, k \in ApiKeys, sess \in Sessions :
            pv = [op |-> "select", pc |-> "request", data_provider |-> dp,
                  body_key |-> k, session |-> sess,
                  api_key |-> "", provider_name |-> "", served |-> "",
                  provider |-> "", has_client |-> TRUE, model |-> "",
                  messages |-> <<>>,
                  generate_request |-> NoRequest, stream_request |-> NoRequest]
       \/ \E p \in Providers, client \in BOOLEAN, msgs \in MessageLists :
          \E m \in Models[p] :
            /\ ~client => p = "openai"
            /\ pv = [op |-> "call", pc |-> "ready", data_provider |-> "",
                     body_key |-> "", session |-> NoSession,
                     api_key |-> "", provider_name |-> "", served |-> "",
                     provider |-> p, has_client |-> client, model |-> m,
                     messages |-> msgs,
                     generate_request |-> NoRequest, stream_request |-> NoRequest]

\* The handler extracts the parameters; a request without a key is refused.
PvExtractProviderParams ==
    /\ pv.op = "select"
    /\ pv.pc = "request"
    /\ LET x == ExtractProviderParams(pv.data_provider, pv.body_key, pv.session)
       IN pv' = [pv EXCEPT !.api_key = x.api_key,
                           !.provider_name = x.provider_name,
                           !.pc = IF x.api_key = "" THEN "refused" ELSE "extracted"]
    /\ UNCHANGED OtherThanProvider

\* An AI task resolves the provider that serves its call.
PvResolveProvider ==
    /\ pv.op = "select"
    /\ pv.pc = "extracted"
    /\ pv' = [pv EXCEPT !.served = ResolveProviderName(pv.api_key, pv.provider_name),
                        !.pc = "resolved"]
    /\ UNCHANGED OtherThanProvider

PvGenerate ==
    /\ pv.op = "call"
    /\ pv.generate_request = NoRequest
    /\ pv' = [pv EXCEPT !.generate_request =
                 GenerateRequest(pv.provider, pv.has_client, pv.messages, pv.model)]
    /\ UNCHANGED OtherThanProvider

PvGenerateStream ==
    /\ pv.op = "call"
    /\ pv.stream_request = NoRequest
    /\ pv' = [pv EXCEPT !.stream_request =
                 StreamRequest(pv.provider, pv.has_client, pv.messages, pv.model)]
    /\ UNCHANGED OtherThanProvider

PvNext ==
    \/ PvExtractProviderParams
    \/ PvResolveProvider
    \/ PvGenerate
    \/ PvGenerateStream

SpecProvider == PvInit /\ [][PvNext]_vars

\* C14: the provider that serves the AI call is the explicitly supplied
\* provider id whenever one is supplied, whatever the prefix of the API key;
\* only when none is supplied is it chosen from the key prefix.
C14_ExplicitProviderWins ==
    (pv.op = "select" /\ pv.pc = "resolved") =>
        pv.served = IF pv.data_provider # "" THEN pv.data_provider
                    ELSE PrefixProvider(pv.api_key)

\* C15: for every provider, message list and model, generate_stream builds
\* the same vendor request as generate: same roles and dropped messages, same
\* system slot and system-to-user promotion, same token and temperature
\* parameters.
C15_StreamBuildsSameRequest ==
    (pv.op = "call" /\ pv.generate_request # NoRequest /\ pv.stream_request # NoRequest)
        => pv.stream_request = pv.generate_request

OriginalWithoutAssistant(messages) ==
    LET kept == SelectSeq(messages, LAMBDA m : m.role # "assistant")
    IN [i \in 1..Len(kept) |->
          [role |-> IF kept[i].role = "system" THEN "developer" ELSE kept[i].role,
           content |-> kept[i].content]]

OpenAIRequestIsRight(r) ==
    IF IsOSeries(pv.model)
    THEN /\ ~r.temperature
         /\ r.token_param = "max_completion_tokens"
         /\ r.messages = OriginalWithoutAssistant(pv.messages)
    ELSE /\ r.temperature
         /\ r.token_param = "max_tokens"
         /\ r.messages = pv.messages

\* C16: a request to an OpenAI reasoning-tier model carries no temperature,
\* carries max_completion_tokens instead of max_tokens, holds no assistant
\* message and has every system message re-labelled `developer`, the other
\* messages in their original order; for another model the list is passed
\* unchanged with temperature and max_tokens.
C16_ReasoningRequestShape ==
    (pv.op = "call" /\ pv.provider = "openai") =>
        /\ pv.generate_request # NoRequest => OpenAIRequestIsRight(pv.generate_request)
        /\ pv.stream_request # NoRequest => OpenAIRequestIsRight(pv.stream_request)

(***************************************************************************)
(* OutputValidator (modules/pipeline/output_validator.py).  A JSON text is *)
(* a sequence of tokens: the structural characters { } [ ] and the comma,  *)
(* K for a quoted key with its colon, N for a number, Q for a double       *)
(* quote, BS for a backslash, and the letters U, t, u, s.                  *)
(***************************************************************************)
\* Longest string value of a generated text.
MaxChars == 3

StringChars == {"BS", "U", "t", "u", "s"}

RECURSIVE CountOf(_, _)
CountOf(text, tok) ==
    IF text = <<>> THEN 0
    ELSE (IF Head(text) = tok THEN 1 ELSE 0) + CountOf(Tail(text), tok)

RECURSIVE Repeat(_, _)
Repeat(tok, n) == IF n <= 0 THEN <<>> ELSE <<tok>> \o Repeat(tok, n - 1)

ParseError == [ok |-> FALSE, value |-> <<>>]

\* Items of a parsed text: a structural token or number, or a string value.
Item(tok) == [tok |-> tok, str |-> <<>>]
StrItem(chars) == [tok |-> "STR", str |-> chars]

\* The JSON scanner: a string runs from Q to the next unescaped Q; inside it
\* \t, \\ and \" are escapes, \u needs four hex digits, and a backslash
\* before any other character is an error.  A string becomes one item.
RECURSIVE Lex(_, _, _, _, _)
Lex(text, i, in_str, cur, acc) ==
    IF i > Len(text)
    THEN IF in_str THEN ParseError ELSE [ok |-> TRUE, value |-> acc]
    ELSE LET c == text[i] IN
         IF ~in_str
         THEN IF c = "Q" THEN Lex(text, i + 1, TRUE, <<>>, acc)
              ELSE IF c \in StringChars THEN ParseError
              ELSE Lex(text, i + 1, FALSE, <<>>, Append(acc, Item(c)))
         ELSE IF c = "Q"
              THEN Lex(text, i + 1, FALSE, <<>>, Append(acc, StrItem(cur)))
              ELSE IF c = "BS"
              THEN IF i + 1 > Len(text) THEN ParseError
                   ELSE IF text[i + 1] = "t" THEN Lex(text, i + 2, TRUE, Append(cur, "TAB"), acc)
                   ELSE IF text[i + 1] = "BS" THEN Lex(text, i + 2, TRUE, Append(cur, "BS"), acc)
                   ELSE IF text[i + 1] = "Q" THEN Lex(text, i + 2, TRUE, Append(cur, "QUOTE"), acc)
                   ELSE ParseError
              ELSE Lex(text, i + 1, TRUE, Append(cur, c), acc)

IsScalar(tok) == tok \in {"N", "STR"}

AfterValue(stack) == IF stack = <<>> THEN "end" ELSE "after"

\* The JSON grammar over the items: value, object of K value pairs, array.
RECURSIVE Grammar(_, _, _, _)
Grammar(items, i, stack, state) ==
    IF i > Len(items) THEN state = "end"
    ELSE
      LET c == items[i].tok
          top == IF stack = <<>> THEN "" ELSE stack[Len(stack)]
          popped == SubSeq(stack, 1, Len(stack) - 1)
          value ==
              IF c = "{" THEN Grammar(items, i + 1, Append(stack, "{"), "key_or_close")
              ELSE IF c = "[" THEN Grammar(items, i + 1, Append(stack, "["), "val_or_close")
              ELSE IF IsScalar(c) THEN Grammar(items, i + 1, stack, AfterValue(stack))
              ELSE FALSE
      IN CASE state = "val" -> value
           [] state = "val_or_close" ->
                IF c = "]" THEN Grammar(items, i + 1, popped, AfterValue(popped)) ELSE value
           [] state = "key_or_close" ->
                IF c = "}" THEN Grammar(items, i + 1, popped, AfterValue(popped))
                ELSE IF c = "K" THEN Grammar(items, i + 1, stack, "val")
                ELSE FALSE
           [] state = "key" ->
                IF c = "K" THEN Grammar(items, i + 1, stack, "val") ELSE FALSE
           [] state = "after" ->
                IF c = "," THEN Grammar(items, i + 1, stack, IF top = "{" THEN "key" ELSE "val")
                ELSE IF c = "}" /\ top = "{" THEN Grammar(items, i + 1, popped, AfterValue(popped))
                ELSE IF c = "]" /\ top = "[" THEN Grammar(items, i + 1, popped, AfterValue(popped))
                ELSE FALSE
           [] OTHER -> FALSE

\* json.loads(text): the parsed value is kept as its sequence of items.
JsonLoads(text) ==
    LET l == Lex(text, 1, FALSE, <<>>, <<>>)
    IN IF l.ok /\ Grammar(l.value, 1, <<>>, "val") THEN l ELSE ParseError

\* valid_escapes = set(r'"\/bfnrtu'), as far as the alphabet goes.
ValidEscapes == {"Q", "BS", "t", "u"}

\* Strategy 1: double every backslash that is not followed by a valid escape
\* character; the last character of the text is never examined.
RECURSIVE FixEscapes(_, _)
FixEscapes(chars, i) ==
    IF i > Len(chars) THEN <<>>
    ELSE IF i = Len(chars) THEN <<chars[i]>>
    ELSE IF chars[i] = "BS"
    THEN IF chars[i + 1] \notin ValidEscapes
         THEN <<"BS", "BS">> \o FixEscapes(chars, i + 1)
         ELSE <<"BS", chars[i + 1]>> \o FixEscapes(chars, i + 2)
    ELSE <<chars[i]>> \o FixEscapes(chars, i + 1)

\* Strategy 2: re.sub(r',\s*}', '}', ...) and re.sub(r',\s*]', ']', ...)
RECURSIVE DropCommaBefore(_, _)
DropCommaBefore(text, closer) ==
    IF text = <<>> THEN <<>>
    ELSE IF Len(text) >= 2 /\ text[1] = "," /\ text[2] = closer
    THEN DropCommaBefore(Tail(text), closer)
    ELSE <<Head(text)>> \o DropCommaBefore(Tail(text), closer)

RemoveTrailingCommas(text) == DropCommaBefore(DropCommaBefore(text, "}"), "]")

\* The containers a text leaves open, outermost first.
RECURSIVE OpenContainers(_, _)
OpenContainers(text, stack) ==
    IF text = <<>> THEN stack
    ELSE IF Head(text) \in {"{", "["} THEN OpenContainers(Tail(text), Append(stack, Head(text)))
    ELSE IF Head(text) \in {"}", "]"} /\ stack # <<>>
    THEN OpenContainers(Tail(text), SubSeq(stack, 1, Len(stack) - 1))
    ELSE OpenContainers(Tail(text), stack)

RECURSIVE ClosersOf(_)
ClosersOf(stack) ==
    IF stack = <<>> THEN <<>>
    ELSE <<IF stack[Len(stack)] = "{" THEN "}" ELSE "]">>
           \o ClosersOf(SubSeq(stack, 1, Len(stack) - 1))

CloseQuote(text) == IF CountOf(text, "Q") % 2 # 0 THEN Append(text, "Q") ELSE text

\* The text closed as its nesting requires: innermost container first.
CloseInNestingOrder(text) ==
    CloseQuote(text) \o ClosersOf(OpenContainers(CloseQuote(text), <<>>))

\* Strategy 4: a closing quote when the number of quotes is odd, then all
\* missing `]`, then all missing `}`.
CloseTruncated(text) ==
    LET truncated == CloseQuote(text)
        open_braces == CountOf(truncated, "{") - CountOf(truncated, "}")
        open_brackets == CountOf(truncated, "[") - CountOf(truncated, "]")
    IN truncated \o Repeat("]", open_brackets) \o Repeat("}", open_braces)

\* Strategy 5: re.sub(r'\\(?![nrt"\\])', '', repaired)
RECURSIVE Nuclear(_, _)
Nuclear(text, i) ==
    IF i > Len(text) THEN <<>>
    ELSE IF text[i] = "BS" /\ (i = Len(text) \/ text[i + 1] \notin {"t", "Q", "BS"})
    THEN Nuclear(text, i + 1)
    ELSE <<text[i]>> \o Nuclear(text, i + 1)

\* _repair_json(text); ParseError stands for None.
RepairJson(text) ==
    LET repaired == RemoveTrailingCommas(FixEscapes(text, 1))
    IN IF JsonLoads(repaired).ok THEN JsonLoads(repaired)
       ELSE IF JsonLoads(CloseTruncated(repaired)).ok THEN JsonLoads(CloseTruncated(repaired))
       ELSE JsonLoads(Nuclear(repaired, 1))

\* validate_json(text) for a text that starts with { or [.
ValidateJson(text) ==
    IF JsonLoads(text).ok THEN JsonLoads(text) ELSE RepairJson(text)

\* String values of up to MaxChars characters.
RECURSIVE CharSeqs(_)
CharSeqs(n) ==
    IF n = 0 THEN {<<>>}
    ELSE CharSeqs(n - 1) \cup
         { Append(q, c) : q \in { x \in CharSeqs(n - 1) : Len(x) = n - 1 }, c \in StringChars }

\* Every backslash stands alone and is followed by a character.
SingleBackslashes(chars) ==
    \A i \in 1..Len(chars) :
        chars[i] = "BS" => (i < Len(chars) /\ chars[i + 1] # "BS")

PathStrings == { c \in CharSeqs(MaxChars) : SingleBackslashes(c) }

\* {"indicators_of_compromise": {"filenames": ["<chars>"]}, "ttps": [],}
PathText(chars, trailing_comma) ==
    <<"{", "K", "{", "K", "[", "Q">> \o chars \o <<"Q", "]", "}", ",", "K", "[", "]">>
        \o (IF trailing_comma THEN <<",">> ELSE <<>>) \o <<"}">>

PathValue(chars) ==
    <<Item("{"), Item("K"), Item("{"), Item("K"), Item("["), StrItem(chars),
      Item("]"), Item("}"), Item(","), Item("K"), Item("["), Item("]"), Item("}")>>

\* Well-formed objects and arrays, to be cut off.
CompleteTexts ==
    { <<"{", "K", "N", ",", "K", "{", "K", "N", "}", "}">>,
      <<"{", "K", "[", "N", ",", "N", "]", ",", "K", "Q", "s", "Q", "}">>,
      <<"{", "K", "[", "{", "K", "N", "}", ",", "{", "K", "Q", "s", "s", "Q", "}", "]", "}">>,
      <<"[", "{", "K", "N", ",", "K", "[", "N", "]", "}", ",", "N", "]">>,
      <<"{", "K", "{", "K", "[", "N", ",", "[", "N", "]", "]", "}", "}">> }

\* A cut after a complete value, or inside a string value.
CutsAfterValue(text, n) ==
    /\ n \in 1..(Len(text) - 1)
    /\ text[n] \in {"N", "]", "}", "Q", "s"}

TruncatedTexts ==
    UNION { { SubSeq(d, 1, n) : n \in { m \in 1..Len(d) : CutsAfterValue(d, m) } } :
            d \in CompleteTexts }

IocCategories == {"ips", "domains", "urls", "email_addresses", "file_hashes",
                  "filenames", "registry_keys", "process_names",
                  "malicious_commands"}

\* Keys a model may add to indicators_of_compromise.
ExtraIocKeys == {"mutexes", "hashes"}

\* validate_ioc_response: the keys of indicators_of_compromise afterwards;
\* every missing category is added, nothing is removed.
IocKeysAfter(keys) == keys \cup IocCategories

\* Elements a model may put into the "ttps" list: a record with or without
\* "mitre_id", a bare string, anything else (a number, null, a list).
TtpElements ==
    {[kind |-> "dict", has_mitre_id |-> TRUE, mitre_id |-> "T1059",
      technique_name |-> "Command and Scripting Interpreter", description |-> "d"],
     [kind |-> "dict", has_mitre_id |-> FALSE, mitre_id |-> "",
      technique_name |-> "Phishing", description |-> "d"],
     [kind |-> "str", has_mitre_id |-> FALSE, mitre_id |-> "",
      technique_name |-> "T1566", description |-> ""],
     [kind |-> "str", has_mitre_id |-> FALSE, mitre_id |-> "",
      technique_name |-> "spearphishing", description |-> ""],
     [kind |-> "other", has_mitre_id |-> FALSE, mitre_id |-> "",
      technique_name |-> "42", description |-> ""]}

\* The record validate_ioc_response puts in place of a bare string.
WrapTtp(ttp) ==
    [kind |-> "dict", has_mitre_id |-> TRUE,
     mitre_id |-> IF SubSeq(ttp.technique_name, 1, 1) = "T" THEN ttp.technique_name
                  ELSE "",
     technique_name |-> ttp.technique_name, description |-> ""]

\* The valid_ttps loop of validate_ioc_response.
RECURSIVE ValidTtps(_)
ValidTtps(ttps) ==
    IF ttps = <<>> THEN <<>>
    ELSE LET ttp == Head(ttps)
         IN  (IF ttp.kind = "dict" /\ ttp.has_mitre_id THEN <<ttp>>
              ELSE IF ttp.kind = "str" THEN <<WrapTtp(ttp)>>
              ELSE <<>>) \o ValidTtps(Tail(ttps))

\* The warnings of validate_ioc_response for a response with the given IoC
\* keys whose top-level fields and confidence_level are in order.
IocWarnings(keys) ==
    {"Missing IoC field '" \o k \o "', added empty list" : k \in IocCategories \ keys}

OtherThanValidator == <<rt, pipeVars, en, ca, pv, mm, moreVars>>

NoValidation == [ok |-> FALSE, value |-> <<>>, keys |-> {}, ttps |-> <<>>, warnings |-> {}]

OvInit ==
    /\ RtIdle
    /\ PipeIdle
    /\ EnIdle /\ CaIdle /\ PvIdle /\ MmIdle /\ MoreIdle
    /\ \/ \E c \in PathStrings, comma \in BOOLEAN :
            ov = [op |-> "validate_json", kind |-> "paths", done |-> FALSE,
                  text |-> PathText(c, comma), chars |-> c, keys |-> {},
                  ttps |-> <<>>, result |-> NoValidation]
       \/ \E t \in TruncatedTexts :
            ov = [op |-> "validate_json", kind |-> "truncated", done |-> FALSE,
                  text |-> t, chars |-> <<>>, keys |-> {},
                  ttps |-> <<>>, result |-> NoValidation]
       \/ \E ks \in SUBSET (IocCategories \cup ExtraIocKeys) :
            ov = [op |-> "validate_ioc_response", kind |-> "ioc", done |-> FALSE,
                  text |-> <<>>, chars |-> <<>>, keys |-> ks,
                  ttps |-> <<>>, result |-> NoValidation]
       \/ \E n \in 1..MaxTtps : \E ttps \in [1..n -> TtpElements] :
            ov = [op |-> "validate_ioc_response", kind |-> "ttps", done |-> FALSE,
                  text |-> <<>>, chars |-> <<>>, keys |-> IocCategories,
                  ttps |-> ttps, result |-> NoValidation]

OvValidateJson ==
    /\ ov.op = "validate_json"
    /\ ~ov.done
    /\ ov' = [ov EXCEPT !.done = TRUE,
                        !.result = [ok |-> ValidateJson(ov.text).ok,
                                    value |-> ValidateJson(ov.text).value,
                                    keys |-> {}, ttps |-> <<>>, warnings |-> {}]]
    /\ UNCHANGED OtherThanValidator

OvValidateIocResponse ==
    /\ ov.op = "validate_ioc_response"
    /\ ~ov.done
    /\ ov' = [ov EXCEPT !.done = TRUE,
                        !.result = [ok |-> TRUE, value |-> <<>>,
                                    keys |-> IocKeysAfter(ov.keys),
                                    ttps |-> ValidTtps(ov.ttps),
                                    warnings |-> IocWarnings(ov.keys)]]
    /\ UNCHANGED OtherThanValidator

OvNext == OvValidateJson \/ OvValidateIocResponse

SpecValidator == OvInit /\ [][OvNext]_vars

\* C17: after validate_ioc_response the key set of indicators_of_compromise
\* is exactly the closed set of nine categories, whatever keys, missing or
\* extra, the raw output had.
C17_IocKeysAreTheClosedSet ==
    (ov.kind = "ioc" /\ ov.done) => ov.result.keys = IocCategories

\* C18: validate_json repairs unescaped Windows-path backslashes without
\* altering the value: for a text whose string value has single backslashes
\* followed by any character it succeeds, tolerates the trailing comma, and
\* the parsed string equals the original characters, with ttps == [].
C18_BackslashesPreserved ==
    (ov.kind = "paths" /\ ov.done) =>
        ov.result.ok /\ ov.result.value = PathValue(ov.chars)

\* C19: for a well-formed object or array cut off after a complete value,
\* whatever the nesting order of the unclosed arrays and objects,
\* validate_json succeeds and returns the values present before the cut.
C19_TruncationRecovered ==
    (ov.kind = "truncated" /\ ov.done) =>
        /\ ov.result.ok
        /\ ov.result.value = JsonLoads(CloseInNestingOrder(ov.text)).value

\* C29: validate_ioc_response never silently discards a TTP: every element
\* of the input ttps list is represented in the output list in its original
\* order (records kept, bare strings wrapped), or else a warning is recorded
\* for the removal.
C29_NoTtpSilentlyDiscarded ==
    (ov.kind = "ttps" /\ ov.done) =>
        \/ /\ Len(ov.result.ttps) = Len(ov.ttps)
           /\ \A i \in 1..Len(ov.ttps) :
                ov.result.ttps[i] = IF ov.ttps[i].kind = "str" THEN WrapTtp(ov.ttps[i])
                                    ELSE ov.ttps[i]
        \/ ov.result.warnings # {}

(***************************************************************************)
(* MITRE mapper (modules/mitre_mapping.py).  Confidences are in hundredths. *)
(***************************************************************************)
\* The technique table, as far as the modelled ids go.
TechniqueDb == {"T1566", "T1195", "T1059.001"}

\* mitre_id values of the extracted TTPs.
TtpIds == {"T1566", "t1059.001", "T1195.002", "T1003.999", "Phishing", ""}

\* str(...).upper()
Upper(id) == IF id = "t1059.001" THEN "T1059.001" ELSE IF id = "Phishing" THEN "PHISHING" ELSE id

\* re.finditer(r'T\d{4}(?:\.\d{3})?', ttp_str): the ids found in the string.
TechniqueIdsIn(ttp_str) ==
    IF ttp_str \in {"T1566", "T1059.001", "T1195.002", "T1003.999"} THEN {ttp_str} ELSE {}

\* `tid in TECHNIQUE_DB`
InTechniqueDb(tid) == tid \in TechniqueDb

\* min(0.9, 0.3 + keyword_hits * 0.15)
KeywordConfidence(hits) == Min(90, 30 + hits * 15)

RECURSIVE AiMatches(_, _, _)
AiMatches(ttps, i, seen) ==
    IF i > Len(ttps) THEN <<>>
    ELSE LET found == { t \in TechniqueIdsIn(Upper(ttps[i])) : InTechniqueDb(t) /\ t \notin seen }
         IN (IF found = {} THEN <<>>
             ELSE <<[technique_id |-> CHOOSE t \in found : TRUE, confidence |-> 95,
                     source |-> "ai_extracted"]>>)
            \o AiMatches(ttps, i + 1, seen \cup found)

SeqToSet(q) == { q[i] : i \in 1..Len(q) }

\* The table is walked in its order of definition.
DbOrder == <<"T1566", "T1195", "T1059.001">>

RECURSIVE KeywordMatches(_, _, _)
KeywordMatches(hits, i, seen) ==
    IF i > Len(DbOrder) THEN <<>>
    ELSE (IF DbOrder[i] \notin seen /\ hits[DbOrder[i]] > 0
          THEN <<[technique_id |-> DbOrder[i],
                  confidence |-> KeywordConfidence(hits[DbOrder[i]]),
                  source |-> "keyword_match"]>>
          ELSE <<>>)
         \o KeywordMatches(hits, i + 1, seen)

\* matches.sort(key=confidence, reverse=True): a stable sort.
RECURSIVE InsertByConfidence(_, _)
InsertByConfidence(sorted, m) ==
    IF sorted = <<>> THEN <<m>>
    ELSE IF Head(sorted).confidence >= m.confidence
    THEN <<Head(sorted)>> \o InsertByConfidence(Tail(sorted), m)
    ELSE <<m>> \o sorted

RECURSIVE SortByConfidence(_)
SortByConfidence(ms) ==
    IF ms = <<>> THEN <<>>
    ELSE InsertByConfidence(SortByConfidence(SubSeq(ms, 1, Len(ms) - 1)), ms[Len(ms)])

map_iocs_to_mitre(ttps, hits) ==
    LET ai == AiMatches(ttps, 1, {})
        seen == { m.technique_id : m \in SeqToSet(ai) }
    IN SortByConfidence(ai \o KeywordMatches(hits, 1, seen))

RECURSIVE TtpLists(_)
TtpLists(n) ==
    IF n = 0 THEN {<<>>}
    ELSE TtpLists(n - 1) \cup
         { Append(q, t) : q \in { x \in TtpLists(n - 1) : Len(x) = n - 1 }, t \in TtpIds }

OtherThanMitre == <<rt, pipeVars, en, ca, pv, ov, moreVars>>

MmInit ==
    /\ RtIdle
    /\ PipeIdle
    /\ EnIdle /\ CaIdle /\ PvIdle /\ OvIdle /\ MoreIdle
    /\ \E ttps \in TtpLists(MaxTtps), hits \in [TechniqueDb -> {0, 1, 5}] :
        mm = [ttps |-> ttps, keyword_hits |-> hits, done |-> FALSE, matches |-> <<>>]

MmMapIocsToMitre ==
    /\ ~mm.done
    /\ mm' = [mm EXCEPT !.done = TRUE,
                        !.matches = map_iocs_to_mitre(mm.ttps, mm.keyword_hits)]
    /\ UNCHANGED OtherThanMitre

MmNext == MmMapIocsToMitre

SpecMitre == MmInit /\ [][MmNext]_vars

\* The form Tdddd or Tdddd.ddd.
HasTechniqueForm(id) == id \in {"T1566", "T1195.002", "T1003.999"}

\* C20: for every TTP whose mitre_id has the form Tdddd or Tdddd.ddd,
\* map_iocs_to_mitre emits a match for that technique id with confidence
\* 0.95 and source `ai_extracted`, whether or not the id is listed in the
\* built-in technique table.
C20_EveryTtpIdIsEmitted ==
    mm.done =>
        \A i \in 1..Len(mm.ttps) :
            HasTechniqueForm(mm.ttps[i]) =>
                \E j \in 1..Len(mm.matches) :
                    /\ mm.matches[j].technique_id = mm.ttps[i]
                    /\ mm.matches[j].confidence = 95
                    /\ mm.matches[j].source = "ai_extracted"

(***************************************************************************)
(* Sigma matcher (modules/sigma_matcher.py).  Texts are strings; scores    *)
(* are fixed-point integers: sub-scores in thousandths, the combined score *)
(* in units of 10^-5 before rounding and in hundredths after round(.., 2). *)
(***************************************************************************)
\* dict.get(field, default) on a rule that has no such field.
NoField == "<absent>"

SIGMA_FIELD_BLOCKLIST ==
    {"selection", "filter", "condition", "detection", "logsource",
     "image", "user", "status", "level", "title", "description",
     "author", "date", "references", "tags", "fields", "falsepositives",
     "selection_process", "selection_main", "selection_img", "selection_cli",
     "selection_parent", "selection_hash", "selection_registry",
     "selection_network", "selection_file", "selection_service",
     "selection_user", "selection_command", "selection_pipe",
     "selection_powershell", "selection_encoded", "selection_renamed",
     "commandline", "parentimage", "parentcommandline", "originalfilename",
     "targetfilename", "sourcefilename", "destinationfilename",
     "targetobject", "newprocessname", "parentprocessname", "processname",
     "imphash", "sha256", "sha1", "md5", "hashes", "signed", "signature",
     "signaturestatus", "product", "category", "service",
     "eventid", "eventtype", "channel", "provider_name",
     "logonid", "logontype", "targetusername", "sourceusername",
     "subjectuserdsid", "subjectusername", "subjectlogonid",
     "destinationport", "destinationip", "sourceport", "sourceip",
     "imagepath", "imageloaded", "calltracestring",
     "accessmask", "objecttype", "objectname",
     "queryname", "querystatus", "queryresults"}

\* `a in b` on Python strings, for a non-empty a.
IsSubstr(a, b) == \E i \in 1..(Len(b) - Len(a) + 1) : SubSeq(b, i, i + Len(a) - 1) = a

\* The display filter with the blocklist test left out.
is_sigma_field_name_patterns_only(t) ==
    LET starts(p) == Len(t) >= Len(p) /\ SubSeq(t, 1, Len(p)) = p
        ends(p) == Len(t) >= Len(p) /\ SubSeq(t, Len(t) - Len(p) + 1, Len(t)) = p
    IN  \/ \E p \in {"filter_", "filter.", "selection_", "selection."} : starts(p)
        \/ \E p \in {"_filter", "_selection"} : ends(p)

is_sigma_field_name(t) ==
    LET starts(p) == Len(t) >= Len(p) /\ SubSeq(t, 1, Len(p)) = p
        ends(p) == Len(t) >= Len(p) /\ SubSeq(t, Len(t) - Len(p) + 1, Len(t)) = p
        letters == {"a", "b", "c", "d", "e", "f", "g", "h", "i", "j", "k", "l", "m",
                    "n", "o", "p", "q", "r", "s", "t", "u", "v", "w", "x", "y", "z"}
    IN  \/ t \in SIGMA_FIELD_BLOCKLIST
        \/ \E p \in {"filter_", "filter.", "selection_", "selection."} : starts(p)
        \/ \E p \in {"_filter", "_selection"} : ends(p)
        \/ Len(t) <= 3 /\ Len(t) > 0 /\ \A i \in 1..Len(t) : SubSeq(t, i, i) \in letters

\* _TOKEN_PATTERN.findall(text) for lower-case text whose only character
\* outside the pattern is the space; acc is the run being read.
RECURSIVE Words(_, _)
Words(text, acc) ==
    IF text = "" THEN (IF acc = "" THEN {} ELSE {acc})
    ELSE IF SubSeq(text, 1, 1) = " "
    THEN (IF acc = "" THEN {} ELSE {acc}) \cup Words(SubSeq(text, 2, Len(text)), "")
    ELSE Words(SubSeq(text, 2, Len(text)), acc \o SubSeq(text, 1, 1))

\* _tokenize_lower / _tokenize: tokens of at least 3 characters that are not
\* stopwords (the stopwords that occur in the modelled texts).
tokenize_lower(text) ==
    {t \in Words(text, "") : Len(t) >= 3 /\ t \notin {"the", "and", "windows", "microsoft"}}

\* _fuzzy_match(keyword, candidates, threshold=0.8)
fuzzy_match(kw, candidates) ==
    \E c \in candidates :
        LET lk == Len(kw)
            lc == Len(c)
            shorter == IF lk <= lc THEN lk ELSE lc
            longer == IF lk <= lc THEN lc ELSE lk
            common == Cardinality({i \in 1..shorter : SubSeq(kw, i, i) = SubSeq(c, i, i)})
        IN  \/ kw = c
            \/ lk >= 4 /\ IsSubstr(kw, c)
            \/ lc >= 4 /\ IsSubstr(c, kw)
            \/ longer - shorter <= 2 /\ lk >= 4 /\ common * 10 >= 8 * longer

\* SigmaIndex.__init__ / _build_index: what the index keeps per rule.  A tag
\* "attack.t1059.001" indexes t1059.001 and its parent t1059.
SigmaIndex(rules) ==
    [rules |-> rules,
     rule_keywords |-> [i \in DOMAIN rules |->
                            UNION {tokenize_lower(v) : v \in rules[i].detection}],
     rule_phrases |-> [i \in DOMAIN rules |->
                            {v \in rules[i].detection : IsSubstr(" ", v) /\ Len(v) > 3}],
     rule_techniques |-> [i \in DOMAIN rules |->
                            UNION {{SubSeq(tag, 8, Len(tag)), SubSeq(tag, 8, 12)} :
                                   tag \in rules[i].tags}],
     rule_logsource |-> [i \in DOMAIN rules |->
                            [category |-> rules[i].category, product |-> rules[i].product]],
     rule_status |-> [i \in DOMAIN rules |->
                            IF rules[i].status = NoField THEN "experimental"
                            ELSE rules[i].status]]

\* math.log((doc_count + 1) / (doc_freq + 1)) in thousandths, for the
\* catalog sizes of the model.
LnMilli(num, den) ==
    CASE num = 3 /\ den = 2 -> 405
      [] num = 4 /\ den = 2 -> 693
      [] num = 4 /\ den = 3 -> 288
      [] num = 5 /\ den = 2 -> 916
      [] num = 5 /\ den = 3 -> 511
      [] num = 5 /\ den = 4 -> 223
      [] OTHER -> 0

RECURSIVE SumOver(_, _)
SumOver(S, f) ==
    IF S = {} THEN 0 ELSE LET x == CHOOSE y \in S : TRUE IN f[x] + SumOver(S \ {x}, f)

\* SigmaIndex.compute_tfidf_score, in thousandths.  Every keyword of a rule
\* occurs once in its list, so term_freq is 1.0.
compute_tfidf_score(index, rule_idx, query_tokens) ==
    LET keywords == index.rule_keywords[rule_idx]
        n == Len(index.rules)
        df(tok) == Cardinality({i \in 1..n : tok \in index.rule_keywords[i]})
        hits == query_tokens \cap keywords
        idf == [tok \in hits |-> 1000 + LnMilli(n + 1, df(tok) + 1)]
    IN  IF keywords = {} THEN 0 ELSE SumOver(hits, idf) \div (Cardinality(keywords) + 1)

IOC_TO_LOGSOURCE(ioc_type) ==
    CASE ioc_type = "ips" -> {"network_connection", "firewall"}
      [] ioc_type = "domains" -> {"dns_query", "dns"}
      [] ioc_type = "urls" -> {"proxy", "network_connection", "webserver"}
      [] ioc_type = "malicious_commands" ->
            {"process_creation", "ps_script", "ps_module", "ps_classic"}
      [] ioc_type = "process_names" -> {"process_creation", "image_load"}
      [] ioc_type = "filenames" ->
            {"file_event", "file_change", "file_access", "file_delete", "file_rename"}
      [] ioc_type = "registry_keys" ->
            {"registry_set", "registry_add", "registry_event", "registry_delete"}
      [] ioc_type = "file_hashes" -> {"file_event", "process_creation", "driver_load"}
      [] OTHER -> {}

\* gather_report_signals (with gather_report_keywords): report.ttps are ids
\* such as "T1059.001", report.iocs is a set of <<ioc_type, value>> pairs.
gather_report_signals(report) ==
    LET tids == {"t" \o SubSeq(ttp, 2, Len(ttp)) : ttp \in report.ttps}
    IN  [techniques |-> tids \cup {SubSeq(tid, 1, 5) : tid \in tids},
         ioc_values |-> {p[2] : p \in report.iocs},
         logsource_categories |-> UNION {IOC_TO_LOGSOURCE(p[1]) : p \in report.iocs},
         keywords |-> UNION ({tokenize_lower(p[2]) : p \in report.iocs}
                             \cup {tokenize_lower(tid) : tid \in tids})]

\* _compute_ioc_field_score, in thousandths.
compute_ioc_field_score(index, rule_idx, ioc_values) ==
    LET all_detection == index.rule_keywords[rule_idx] \cup index.rule_phrases[rule_idx]
        matched_iocs == {v \in ioc_values : Len(v) >= 3 /\
                            \E d \in all_detection : IsSubstr(v, d) \/ IsSubstr(d, v)}
        n == Cardinality(ioc_values)
    IN  IF matched_iocs = {} THEN 0
        ELSE Min(1000, (Cardinality(matched_iocs) * 1000) \div (IF n < 5 THEN n ELSE 5))

\* round(x, 2) of a score held in units of 10^-5, giving hundredths.
Round2(c) ==
    LET q == c \div 1000
        r == c % 1000
    IN  IF r > 500 \/ (r = 500 /\ q % 2 = 1) THEN q + 1 ELSE q

\* The loop body of match_sigma_rules_with_report for one rule of the index:
\* candidate stages, the four sub-scores, the quality multiplier, the cap.
ScoreCandidate(index, signals, report_text, rule_idx) ==
    LET keywords == index.rule_keywords[rule_idx]
        phrases == index.rule_phrases[rule_idx]
        ls == index.rule_logsource[rule_idx]
        mitre_matched == signals.techniques \cap index.rule_techniques[rule_idx]
        logsource_relevant ==
            \E category \in signals.logsource_categories :
                \/ IsSubstr(category, ls.category \o ":" \o ls.product)
                \/ IsSubstr(category, ls.category \o ":*")
        matched_keywords ==
            {kw \in keywords : kw \in signals.keywords \/ fuzzy_match(kw, signals.keywords)}
                \cup {ph \in phrases : IsSubstr(ph, report_text)}
        total_terms == Cardinality(keywords) + Cardinality(phrases)
        keyword_score ==
            IF total_terms = 0 THEN 0
            ELSE ((Cardinality(matched_keywords) * 1000) \div total_terms
                  + Min(compute_tfidf_score(index, rule_idx, signals.keywords), 1000)) \div 2
        ioc_score == compute_ioc_field_score(index, rule_idx, signals.ioc_values)
        mitre_score == IF mitre_matched # {} THEN 1000 ELSE 0
        logsource_score == IF logsource_relevant THEN 1000 ELSE 0
        raw_score == mitre_score * 40 + ioc_score * 25 + logsource_score * 15
                        + keyword_score * 20
        status == index.rule_status[rule_idx]
        quality_mult == CASE status = "stable" -> 115
                          [] status = "experimental" -> 85
                          [] OTHER -> 100
        combined == Min(100 * 100000, raw_score * quality_mult)
    IN  [idx |-> rule_idx,
         id |-> IF index.rules[rule_idx].id = NoField THEN "unknown"
                ELSE index.rules[rule_idx].id,
         candidate |-> mitre_matched # {} \/ logsource_relevant
                        \/ signals.keywords \cap keywords # {},
         combined |-> combined,
         combined_score |-> Round2(combined),
         matched_keywords |-> {kw \in matched_keywords : ~is_sigma_field_name(kw)},
         mitre |-> (mitre_score * 40) \div 1000,
         ioc_field |-> ioc_score * 25,
         logsource |-> (logsource_score * 15) \div 1000,
         keyword |-> keyword_score * 20]

\* signals["keywords"] after the raw-text fallback.
ReportSignals(report) ==
    LET s == gather_report_signals(report)
    IN  IF s.keywords = {} /\ report.text # ""
        THEN [s EXCEPT !.keywords = {t \in tokenize_lower(report.text) : Len(t) >= 4}]
        ELSE s

\* `if not keywords and not techniques and not ioc_values: return []`
NoSignals(report) ==
    LET s == ReportSignals(report)
    IN  s.keywords = {} /\ s.techniques = {} /\ s.ioc_values = {}

\* `if combined_score < threshold: continue`
BelowThreshold(combined, threshold) == combined < threshold * 100000

\* `results` as appended by the loop: candidates that pass the threshold and
\* keep at least 3 displayable keywords, in rule order.
ScoredCandidates(index, report, threshold) ==
    LET signals == ReportSignals(report)
        all == [i \in DOMAIN index.rules |-> ScoreCandidate(index, signals, report.text, i)]
        Keep(r) == /\ r.candidate
                   /\ ~BelowThreshold(r.combined, threshold)
                   /\ Cardinality(r.matched_keywords) >= 3
    IN  SelectSeq(all, Keep)

\* results.sort(key=combined_score, reverse=True): stable, descending.
RECURSIVE SortByScore(_)
SortByScore(rs) ==
    IF rs = <<>> THEN <<>>
    ELSE LET best == CHOOSE i \in 1..Len(rs) : \A j \in 1..Len(rs) :
                        \/ rs[j].combined_score < rs[i].combined_score
                        \/ rs[j].combined_score = rs[i].combined_score /\ i <= j
         IN  <<rs[best]>> \o SortByScore(SubSeq(rs, 1, best - 1)
                                            \o SubSeq(rs, best + 1, Len(rs)))

\* The seen_ids loop.
RECURSIVE DedupeById(_, _)
DedupeById(rs, seen_ids) ==
    IF rs = <<>> THEN <<>>
    ELSE IF Head(rs).id \in seen_ids THEN DedupeById(Tail(rs), seen_ids)
    ELSE <<Head(rs)>> \o DedupeById(Tail(rs), seen_ids \cup {Head(rs).id})

\* match_sigma_rules_with_report once the index is at hand.
match_sigma_rules_with_report(index, report, threshold, max_results) ==
    IF NoSignals(report) THEN <<>>
    ELSE LET deduped == DedupeById(SortByScore(ScoredCandidates(index, report, threshold)), {})
         IN  SubSeq(deduped, 1, Min(max_results, Len(deduped)))

Rule(id, tag, category, status, detection) ==
    [id |-> id, tags |-> {tag}, category |-> category, product |-> "windows",
     status |-> status, detection |-> detection]

\* The three-rule catalog and the report of the precision fixture.
FixtureD ==
    <<Rule("d1", "attack.t1059.001", "process_creation", NoField, {"powershell.exe"}),
      Rule("d2", "attack.t1003.001", "process_creation", NoField, {"mimikatz"}),
      Rule("d3", "attack.t1486", "file_event", NoField, {"ransom_note"})>>

ReportD == [ttps |-> {"T1059.001"}, text |-> "",
            iocs |-> {<<"malicious_commands", "powershell.exe">>}]

\* Catalogs as load_sigma_rules_local may return them; two of the rules
\* carry no `id` field.
Catalogs ==
    LET encoded == Rule("ps-encoded", "attack.t1059.001", "process_creation", "stable",
                        {"powershell.exe", "encodedcommand", "bypass", "commandline"})
        download == Rule(NoField, "attack.t1059.001", "process_creation", "test",
                         {"powershell.exe", "downloadstring", "encodedcommand bypass"})
        lsass == Rule(NoField, "attack.t1003.001", "process_creation", NoField,
                      {"mimikatz", "sekurlsa", "lsass.exe"})
        ransom == Rule("ransom", "attack.t1486", "file_event", "experimental",
                       {"ransom_note", "vssadmin", "selection_main"})
    IN  {FixtureD, <<ransom>>, <<encoded, ransom>>, <<download, lsass>>,
         <<lsass, encoded, download>>}

Reports ==
    {ReportD,
     [ttps |-> {"T1059.001", "T1003.001"},
      text |-> "powershell.exe with encodedcommand bypass",
      iocs |-> {<<"malicious_commands", "powershell.exe">>,
                <<"malicious_commands", "encodedcommand">>,
                <<"malicious_commands", "bypass">>,
                <<"malicious_commands", "downloadstring">>,
                <<"malicious_commands", "commandline">>,
                <<"process_names", "mimikatz">>,
                <<"process_names", "sekurlsa">>,
                <<"process_names", "lsass.exe">>}],
     [ttps |-> {}, text |-> "mimikatz sekurlsa lsass.exe dumps", iocs |-> {}],
     [ttps |-> {}, text |-> "", iocs |-> {}]}

OtherThanMatcher == <<rt, pipeVars, en, ca, pv, ov, mm, ec, pf, ix>>

\* A fresh process: _index_cache is None; the report, threshold and
\* max_results of the calls to come are fixed.
SmInit ==
    /\ RtIdle
    /\ PipeIdle
    /\ EnIdle /\ CaIdle /\ PvIdle /\ OvIdle /\ MmIdle
    /\ ec = "idle" /\ pf = "idle" /\ ix = "idle"
    /\ \E report \in Reports, threshold \in {0, 25}, max_results \in {1, 15} :
        sm = [report |-> report, threshold |-> threshold, max_results |-> max_results,
              has_index |-> FALSE, index_rules |-> <<>>, index_dir |-> "",
              called |-> FALSE, fetched |-> FALSE, cold |-> FALSE,
              sigma_rules |-> <<>>, root_directory |-> "", result |-> <<>>]

\* One call match_sigma_rules_with_report(sigma_rules, ..., root_directory),
\* _get_or_build_index included: the cached index is reused when its
\* directory equals root_directory, else an index of sigma_rules replaces it.
SmMatch ==
    \E sigma_rules \in Catalogs, root_directory \in {"rules", "custom_rules"} :
        LET hit == sm.has_index /\ sm.index_dir = root_directory
            index_rules == IF hit THEN sm.index_rules ELSE sigma_rules
        IN  /\ sm' = IF NoSignals(sm.report)
                     THEN [sm EXCEPT !.called = TRUE, !.fetched = FALSE, !.cold = FALSE,
                                     !.sigma_rules = sigma_rules,
                                     !.root_directory = root_directory,
                                     !.result = <<>>]
                     ELSE [sm EXCEPT !.called = TRUE, !.fetched = TRUE,
                                     !.cold = ~sm.has_index,
                                     !.sigma_rules = sigma_rules,
                                     !.root_directory = root_directory,
                                     !.has_index = TRUE,
                                     !.index_rules = index_rules,
                                     !.index_dir = root_directory,
                                     !.result = match_sigma_rules_with_report(
                                                    SigmaIndex(index_rules), sm.report,
                                                    sm.threshold, sm.max_results)]
            /\ UNCHANGED OtherThanMatcher

SmNext == SmMatch

SpecMatcher == SmInit /\ [][SmNext]_vars

\* C21: every result m of match_sigma_rules_with_report has
\* threshold <= m.combined_score <= 100, no Sigma field-name blocklist token
\* among m.matched_keywords, and at least 3 matched keywords.
C21_ResultsWithinContract ==
    sm.called =>
        \A k \in 1..Len(sm.result) :
            LET m == sm.result[k] IN
            /\ sm.threshold * 100 <= m.combined_score
            /\ m.combined_score <= 100 * 100
            /\ m.matched_keywords \cap SIGMA_FIELD_BLOCKLIST = {}
            /\ Cardinality(m.matched_keywords) >= 3

\* A result above a positive threshold whose rule matched the blocklisted
\* token "commandline" beside three displayable keywords.
C21_Witness ==
    /\ sm.called /\ sm.fetched /\ sm.threshold = 25
    /\ \E k \in 1..Len(sm.result) :
        /\ "commandline" \in sm.index_rules[sm.result[k].idx].detection
        /\ "commandline" \in ReportSignals(sm.report).keywords
        /\ Cardinality(sm.result[k].matched_keywords) = 3

\* C22: for the Fixture D catalog and signals the matcher returns exactly one
\* result, rule (i), with mitre = 40 and logsource = 15; rules (ii) and
\* (iii) are filtered out.
C22_FixtureDReturnsRuleOne ==
    (sm.called /\ sm.cold /\ sm.sigma_rules = FixtureD /\ sm.report = ReportD
        /\ sm.threshold = 25) =>
        /\ Len(sm.result) = 1
        /\ sm.result[1].idx = 1
        /\ sm.result[1].combined_score >= sm.threshold * 100
        /\ sm.result[1].mitre = 40
        /\ sm.result[1].logsource = 15

\* C25: the index a match scores against was built from the catalog passed
\* to that match, also after the rules under the same root directory were
\* reloaded with different content.
C25_IndexBuiltFromPassedCatalog ==
    (sm.called /\ sm.fetched) => sm.index_rules = sm.sigma_rules

\* C30: de-duplication never collapses distinct catalog rules: all rules that
\* pass the threshold and keyword filters appear in the result when they are
\* no more than max_results, rules without an id included.
C30_DedupKeepsDistinctRules ==
    (sm.called /\ sm.fetched) =>
        LET passed == ScoredCandidates(SigmaIndex(sm.index_rules), sm.report, sm.threshold)
        IN  Len(passed) <= sm.max_results =>
                \A i \in 1..Len(passed) :
                    \E k \in 1..Len(sm.result) : sm.result[k].idx = passed[i].idx

(***************************************************************************)
(* The index cache (sigma_matcher.py 341-351) under concurrent requests.   *)
(* _index_cache and _index_cache_dir are two module globals read and       *)
(* written one at a time, without a lock.  An index is named by the root   *)
(* directory whose rules it was built from.                                *)
(***************************************************************************)
IndexThreads == {1, 2}
Roots == {"rules", "custom_rules"}

OtherThanIndex == <<rt, pipeVars, en, ca, pv, ov, mm, ec, pf, sm>>

IxInit ==
    /\ RtIdle
    /\ PipeIdle
    /\ EnIdle /\ CaIdle /\ PvIdle /\ OvIdle /\ MmIdle
    /\ ec = "idle" /\ pf = "idle" /\ sm = "idle"
    /\ ix = [index_cache |-> "None", index_cache_dir |-> "None",
             th |-> [t \in IndexThreads |->
                        [pc |-> "idle", root_directory |-> "None", returned |-> "None"]]]

\* A request thread enters _get_or_build_index(rules, root_directory) with
\* the rules it loaded from root_directory.
IxCall ==
    \E t \in IndexThreads, root \in Roots :
        /\ ix.th[t].pc \in {"idle", "done"}
        /\ ix' = [ix EXCEPT !.th[t] = [pc |-> "check_cache", root_directory |-> root,
                                       returned |-> "None"]]
        /\ UNCHANGED OtherThanIndex

\* `if _index_cache is not None`
IxCheckCache ==
    \E t \in IndexThreads :
        /\ ix.th[t].pc = "check_cache"
        /\ ix' = [ix EXCEPT !.th[t].pc = IF ix.index_cache # "None" THEN "check_dir"
                                         ELSE "build"]
        /\ UNCHANGED OtherThanIndex

\* `and _index_cache_dir == root_directory`
IxCheckDir ==
    \E t \in IndexThreads :
        /\ ix.th[t].pc = "check_dir"
        /\ ix' = [ix EXCEPT !.th[t].pc =
                        IF ix.index_cache_dir = ix.th[t].root_directory
                        THEN "return_cached" ELSE "build"]
        /\ UNCHANGED OtherThanIndex

\* `_index_cache = SigmaIndex(rules)`
IxBuild ==
    \E t \in IndexThreads :
        /\ ix.th[t].pc = "build"
        /\ ix' = [ix EXCEPT !.index_cache = ix.th[t].root_directory,
                            !.th[t].pc = "set_dir"]
        /\ UNCHANGED OtherThanIndex

\* `_index_cache_dir = root_directory`
IxSetDir ==
    \E t \in IndexThreads :
        /\ ix.th[t].pc = "set_dir"
        /\ ix' = [ix EXCEPT !.index_cache_dir = ix.th[t].root_directory,
                            !.th[t].pc = "return"]
        /\ UNCHANGED OtherThanIndex

\* `return _index_cache`, on either path: the global is read again.
IxReturn ==
    \E t \in IndexThreads :
        /\ ix.th[t].pc \in {"return_cached", "return"}
        /\ ix' = [ix EXCEPT !.th[t].pc = "done", !.th[t].returned = ix.index_cache]
        /\ UNCHANGED OtherThanIndex

IxNext ==
    \/ IxCall
    \/ IxCheckCache
    \/ IxCheckDir
    \/ IxBuild
    \/ IxSetDir
    \/ IxReturn

SpecIndex == IxInit /\ [][IxNext]_vars

\* C24: under every interleaving of concurrent _get_or_build_index calls,
\* the index returned to a caller asking for root R was built from the rules
\* of root R.
C24_ReturnedIndexIsOfRequestedRoot ==
    \A t \in IndexThreads :
        ix.th[t].pc = "done" => ix.th[t].returned = ix.th[t].root_directory

(***************************************************************************)
(* The provider factory (modules/ai/provider_factory.py) under two         *)
(* concurrent requests.  A provider instance is named by the request that  *)
(* created it; 0 stands for no instance.                                   *)
(***************************************************************************)
Requests == {1, 2}
FactoryKeys == {"sk-one", "sk-two"}
FactoryModels == {"gpt-4.1", "o3-mini"}

OtherThanFactory == <<rt, pipeVars, en, ca, pv, ov, mm, ec, ix, sm>>

\* Two requests for the provider "openai", each with its own API key and
\* model_name; _provider_cache is empty.
PfInit ==
    /\ RtIdle
    /\ PipeIdle
    /\ EnIdle /\ CaIdle /\ PvIdle /\ OvIdle /\ MmIdle
    /\ ec = "idle" /\ ix = "idle" /\ sm = "idle"
    /\ \E keys \in [Requests -> FactoryKeys], models \in [Requests -> FactoryModels] :
        pf = [provider_cache |-> [k \in FactoryKeys |-> 0],
              default_model |-> [r \in Requests |-> ""],
              rq |-> [r \in Requests |->
                        [pc |-> "get_provider", api_key |-> keys[r], model |-> models[r],
                         provider |-> 0, generated_with |-> ""]]]

\* get_provider, `if cache_key in _provider_cache:` taken: the cached
\* instance gets `provider.default_model = model` and is returned.
PfGetCached ==
    \E r \in Requests :
        /\ pf.rq[r].pc = "get_provider"
        /\ pf.provider_cache[pf.rq[r].api_key] # 0
        /\ LET provider == pf.provider_cache[pf.rq[r].api_key]
           IN  pf' = [pf EXCEPT !.default_model[provider] = pf.rq[r].model,
                                !.rq[r].provider = provider,
                                !.rq[r].pc = "generate"]
        /\ UNCHANGED OtherThanFactory

\* get_provider, key not cached: `provider = OpenAIProvider(api_key,
\* default_model=model or ...)`.
PfCreate ==
    \E r \in Requests :
        /\ pf.rq[r].pc = "get_provider"
        /\ pf.provider_cache[pf.rq[r].api_key] = 0
        /\ pf' = [pf EXCEPT !.default_model[r] = pf.rq[r].model,
                            !.rq[r].provider = r,
                            !.rq[r].pc = "store"]
        /\ UNCHANGED OtherThanFactory

\* `_provider_cache[cache_key] = provider; return provider`
PfStore ==
    \E r \in Requests :
        /\ pf.rq[r].pc = "store"
        /\ pf' = [pf EXCEPT !.provider_cache[pf.rq[r].api_key] = r,
                            !.rq[r].pc = "generate"]
        /\ UNCHANGED OtherThanFactory

\* `ai.generate(messages, temperature=0.1)`: no model argument, so
\* _resolve_model(None) gives self.default_model at the time of the call.
PfGenerate ==
    \E r \in Requests :
        /\ pf.rq[r].pc = "generate"
        /\ pf' = [pf EXCEPT !.rq[r].generated_with = pf.default_model[pf.rq[r].provider],
                            !.rq[r].pc = "done"]
        /\ UNCHANGED OtherThanFactory

PfNext ==
    \/ PfGetCached
    \/ PfCreate
    \/ PfStore
    \/ PfGenerate

SpecFactory == PfInit /\ [][PfNext]_vars

\* C23: each provider call runs with the model its own request asked for,
\* also when two concurrent requests share the (provider, API key) pair and
\* name different models.
C23_GenerateUsesOwnModel ==
    \A r \in Requests :
        pf.rq[r].pc = "done" => pf.rq[r].generated_with = pf.rq[r].model

(***************************************************************************)
(* The cached AI tasks (modules/ai_engine.py) with the response cache:     *)
(* successive calls of one task, all within the TTL and far below          *)
(* max_size, so that no entry expires or is evicted.                       *)
(***************************************************************************)
MaxEngineCalls == 2

\* Inputs of a call: the primary payload as its first 500 characters and
\* the rest, the API key and the model name; provider_name keeps its
\* default "openai".
EngineInputs ==
    [first500 : {"report A", "report B"}, rest : {"", " appendix"},
     api_key : FactoryKeys, model_name : FactoryModels]
        \ [first500 : {"report B"}, rest : {" appendix"},
           api_key : FactoryKeys, model_name : FactoryModels]

\* What the provider's generate call does: raise, or return content that
\* validate_json parses into an object, a non-empty array, an empty array,
\* or fails to parse ("garbage"), or that is empty after strip().
ResponseKinds == {"object", "array", "empty_array", "empty_text", "garbage", "raises"}

\* The arguments each task passes to ResponseCache._make_key; the SHA-256
\* prefix keeps distinct argument tuples distinct.
make_key(task, input) ==
    CASE task = "summarize_threat_report" ->
            <<"summarize", input.first500, "openai", input.model_name>>
      [] task = "extract_iocs_ttps_gpt" ->
            <<"ioc_extract", input.first500, "openai", input.model_name>>
      [] task = "convert_sigma_to_siem_queries" ->
            <<"siem_convert", input.first500, "openai">>
      [] OTHER -> <<"atomic_tests", input.first500, "openai">>

\* A task that calls cache.set whatever became of the response.
TaskOutcomeAlwaysStores(task, kind) ==
    [value |-> IF kind = "object" THEN "parsed" ELSE "fallback", store |-> TRUE]

\* The value a task returns for a provider response and whether it calls
\* cache.set first: "parsed" is a non-empty result made from the response,
\* "empty" is "" or [], "fallback" the task's fallback value.
TaskOutcome(task, kind) ==
    CASE kind = "raises" ->
            [value |-> IF task = "generate_atomic_tests_from_sigma" THEN "empty"
                       ELSE "fallback", store |-> FALSE]
      [] task = "summarize_threat_report" ->
            [value |-> IF kind = "empty_text" THEN "empty" ELSE "parsed", store |-> TRUE]
      [] task = "extract_iocs_ttps_gpt" ->
            IF kind = "object" THEN [value |-> "parsed", store |-> TRUE]
            ELSE [value |-> "fallback", store |-> FALSE]
      [] task = "convert_sigma_to_siem_queries" ->
            [value |-> IF kind = "object" THEN "parsed" ELSE "fallback", store |-> TRUE]
      [] OTHER ->
            IF kind \in {"object", "array"} THEN [value |-> "parsed", store |-> TRUE]
            ELSE [value |-> "empty", store |-> kind = "empty_array"]

NoCall == [input |-> [first500 |-> "", rest |-> "", api_key |-> "", model_name |-> ""],
           kind |-> "none", hit |-> FALSE, provider_called |-> FALSE, stored |-> FALSE,
           value |-> "none",
           from |-> [first500 |-> "", rest |-> "", api_key |-> "", model_name |-> ""]]

OtherThanEngineCache == <<rt, pipeVars, en, ca, pv, ov, mm, pf, ix, sm>>

EcInit ==
    /\ RtIdle
    /\ PipeIdle
    /\ EnIdle /\ CaIdle /\ PvIdle /\ OvIdle /\ MmIdle
    /\ pf = "idle" /\ ix = "idle" /\ sm = "idle"
    /\ \E task \in CachedTasks :
        ec = [task |-> task, cache |-> {}, calls |-> 0, prev |-> NoCall, last |-> NoCall]

\* One call of the task: `cached = cache.get(cache_key); if cached: return
\* cached`, else the provider is invoked, the response handled and, where
\* the task does so, the result stored.  A stored result remembers the
\* input it was computed from.  On a hit the provider is not reached, so
\* its response is left at one value.
EcCallTask ==
    \E input \in EngineInputs, kind \in ResponseKinds :
        LET key == make_key(ec.task, input)
            found == {e \in ec.cache : e.key = key}
            cached == CHOOSE e \in found : TRUE
            hit == found # {} /\ cached.value # "empty"
            out == TaskOutcome(ec.task, kind)
            call == IF hit
                    THEN [input |-> input, kind |-> "none", hit |-> TRUE,
                          provider_called |-> FALSE, stored |-> FALSE,
                          value |-> cached.value, from |-> cached.from]
                    ELSE [input |-> input, kind |-> kind, hit |-> FALSE,
                          provider_called |-> TRUE, stored |-> out.store,
                          value |-> out.value, from |-> input]
        IN  /\ ec.calls < MaxEngineCalls
            /\ hit => kind = "object"
            /\ ec' = [ec EXCEPT !.calls = @ + 1, !.prev = ec.last, !.last = call,
                        !.cache = IF ~hit /\ out.store
                                  THEN (ec.cache \ found)
                                        \cup {[key |-> key, value |-> out.value,
                                               from |-> input]}
                                  ELSE ec.cache]
            /\ UNCHANGED OtherThanEngineCache

EcNext == EcCallTask

SpecEngineCache == EcInit /\ [][EcNext]_vars

\* C26: a cached result returned by a task was computed from the same input
\* and under the same model and credentials as the current request.
C26_CachedResultIsOfSameRequest ==
    ec.last.hit => ec.last.from = ec.last.input

\* C27: extract_iocs_ttps_gpt stores a result only when the output was
\* parsed into a JSON object; after an unparseable output or a provider
\* error nothing is stored and the next identical request invokes the
\* provider again.
C27_OnlyParsedIocResultsCached ==
    ec.task = "extract_iocs_ttps_gpt" =>
        /\ ec.last.stored => ec.last.kind = "object"
        /\ (ec.last.provider_called /\ ec.last.kind # "object") =>
                \A e \in ec.cache : e.key # make_key(ec.task, ec.last.input)
        /\ (ec.prev.provider_called /\ ec.prev.kind # "object"
                /\ ec.last.input = ec.prev.input) => ec.last.provider_called

\* An IoC extraction whose output did not parse, followed by the identical
\* request, which reaches the provider again.
C27_Witness ==
    /\ ec.task = "extract_iocs_ttps_gpt"
    /\ ec.prev.provider_called /\ ec.prev.kind \in {"garbage", "raises"}
    /\ ec.last.input = ec.prev.input
    /\ ec.last.provider_called

\* C28: once a task has stored a result, an identical call returns the
\* stored result without invoking the provider, also when the stored result
\* is empty.
C28_StoredResultIsServed ==
    (ec.prev.stored /\ ec.last.input = ec.prev.input) =>
        /\ ~ec.last.provider_called
        /\ ec.last.value = ec.prev.value

====
